---- MODULE Spec2Model ----
(***************************************************************************)
(* A model of orgbot: the reconciliation of a GitHub organisation          *)
(* (teams, team hierarchy, memberships, repository team permissions and    *)
(* admin topics) against a desired Org document.                           *)
(*                                                                         *)
(* Strings that the code inspects character by character (team names,     *)
(* topics) are sequences of one-character strings; strings that the code   *)
(* only compares (emails, descriptions) are TLA+ strings.                  *)
(***************************************************************************)
EXTENDS Integers, Sequences, FiniteSets, TLC

VARIABLES
    orgDoc,     \* the desired Org as authored (the document every run loads)
    changes,    \* the RepoTeamsChangeSet every UpdateRepoTeams is given
    forge,      \* the GitHub organisation: teams, memberships, admins, users, repos
    st,         \* the running ApplyOrg call: its position and its locals
    calls,      \* the calls the running operation has made on its GitHubService
    runs,       \* the outcome of every ApplyOrg call that has returned
    failures,   \* number of forge calls that have failed so far
    repoOp      \* the outcome of the last repository operation

vars == <<orgDoc, changes, forge, st, calls, runs, failures, repoOp>>

-----------------------------------------------------------------------------
(* Bounds of the model *)

MaxWantTeams == 2       \* desired teams in an Org
MaxHaveTeams == 2       \* teams on the forge in the initial state
MaxRuns      == 2       \* operations (ApplyOrg, repository operations) in one behaviour
MaxFailures  == 1       \* forge calls that fail in one behaviour

-----------------------------------------------------------------------------
(* Generic helpers *)

Range(s) == {s[i] : i \in 1..Len(s)}

SelectSeqIdx(s, keep) ==
    \* the subsequence of s at the indices in keep
    LET RECURSIVE Sel(_)
        Sel(i) == IF i > Len(s) THEN <<>>
                  ELSE IF i \in keep THEN <<s[i]>> \o Sel(i + 1) ELSE Sel(i + 1)
    IN  Sel(1)

-----------------------------------------------------------------------------
(* Domain types: org.go, github.go *)

RoleMaintainer == "maintainer"
RoleMember     == "member"
Roles          == {RoleMaintainer, RoleMember}

phonyTeamID == -1

RepoPermissionRead  == "pull"
RepoPermissionWrite == "push"
RepoPermissionAdmin == "admin"

\* GitHubTeam{ID, ParentID, Name, Description}
GitHubTeam(id, parentID, name, description) ==
    [ID |-> id, ParentID |-> parentID, Name |-> name, Description |-> description]

\* The zero GitHubTeam, standing for a nil *GitHubTeam in records of calls.
NoTeam == GitHubTeam(0, 0, <<>>, "")

\* GitHubStats{}: the zero value of the five counters.
ZeroStats ==
    [TeamsCreated |-> 0, TeamsUpdated |-> 0, TeamsDeleted |-> 0,
     TeamMembershipsAdded |-> 0, TeamMembershipsDeleted |-> 0]

\* ApplyOrgResult built from the stats at the end of ApplyOrg.
ApplyOrgResult(stats) ==
    [TeamsCreated |-> stats.TeamsCreated,
     TeamsUpdated |-> stats.TeamsUpdated,
     TeamsDeleted |-> stats.TeamsDeleted,
     MembershipsAdded |-> stats.TeamMembershipsAdded,
     MembershipsDeleted |-> stats.TeamMembershipsDeleted]

ZeroResult == ApplyOrgResult(ZeroStats)

\* The nil *ApplyOrgResult that ApplyOrg returns together with an error.
NilResult == [nil |-> TRUE]

\* The kinds of call of the GitHubService interface.
WriteOps == {"CreateTeam", "UpdateTeam", "DeleteTeam", "AddTeamMembership",
             "DeleteTeamMembership", "AddTeamRepoPermission",
             "DeleteTeamRepoPermission", "UpdateRepoTopics"}
ReadOps  == {"ListTeams", "ListTeamMembers", "ListAdmins", "WalkRepos",
             "WalkReposByTeam", "RepoByName", "UserByEmail", "UserByLogin"}

\* One call made on the GitHubService an operation holds: what was asked, for
\* which desired team (idx, 0 when none), whether it succeeded, and whether it
\* reached the concrete service behind the adapters.
Call(op, idx, id, team, email, role, emails, ok, delegated) ==
    [op |-> op, idx |-> idx, id |-> id, team |-> team, email |-> email,
     role |-> role, emails |-> emails, ok |-> ok, delegated |-> delegated]

-----------------------------------------------------------------------------
(* The concrete service: pkg/github/github.go against the GitHub API.      *)
(* forge.teams is the listing order of the teams; forge.members holds one  *)
(* role per (team, user); a team's repositories carry one permission per   *)
(* team.                                                                   *)

TeamIDs(f) == {f.teams[i].ID : i \in 1..Len(f.teams)}

TeamByID(f, id) == CHOOSE t \in Range(f.teams) : t.ID = id

\* The teams below the team id in the forge's hierarchy (children, their children, ...).
RECURSIVE DescendantsN(_, _, _)
DescendantsN(f, ids, n) ==
    LET more == {t.ID : t \in {u \in Range(f.teams) : u.ParentID \in ids}}
    IN  IF n = 0 \/ more \subseteq ids THEN ids
        ELSE DescendantsN(f, ids \cup more, n - 1)

Descendants(f, id) == DescendantsN(f, {id}, Len(f.teams)) \ {id}

\* service.ListTeams: every (non-secret) team, in listing order.
SvcListTeams(f) == f.teams

\* service.ListTeamMembers: the users holding exactly that role in the team.
SvcListTeamMembersOK(f, id) == id \in TeamIDs(f)
SvcListTeamMembers(f, id, role) ==
    {m.email : m \in {x \in f.members : x.team = id /\ x.role = role}}

\* service.ListAdmins
SvcListAdmins(f) == f.admins

\* service.UserByEmail: nil error iff the audit document knows the email.
SvcUserByEmailOK(f, email) == email \in f.users

\* service.CreateTeam: the forge assigns the next id. GitHub refuses a name
\* another team of the organisation carries, and a parent that does not exist.
SvcCreateTeamOK(f, team) ==
    /\ team.ParentID = 0 \/ team.ParentID \in TeamIDs(f)
    /\ \A t \in Range(f.teams) : t.Name # team.Name
SvcCreateTeamResult(f, team) == [team EXCEPT !.ID = f.nextID]
SvcCreateTeam(f, team) ==
    [f EXCEPT !.teams = Append(@, SvcCreateTeamResult(f, team)),
              !.nextID = @ + 1]

\* service.UpdateTeam: edits name, description and parent of the team with that id.
SvcUpdateTeamOK(f, team) ==
    /\ team.ID \in TeamIDs(f)
    /\ team.ParentID = 0 \/ team.ParentID \in TeamIDs(f)
    /\ team.ParentID # team.ID
    /\ \A t \in Range(f.teams) : t.ID # team.ID => t.Name # team.Name
SvcUpdateTeam(f, team) ==
    [f EXCEPT !.teams = [i \in 1..Len(@) |-> IF @[i].ID = team.ID THEN team ELSE @[i]]]

\* service.DeleteTeam: GitHub deletes the team together with its child teams
\* and answers 404 for a team that does not exist.
SvcDeleteTeamOK(f, id) == id \in TeamIDs(f)
SvcDeleteTeam(f, id) ==
    LET gone == {id} \cup Descendants(f, id)
    IN  [f EXCEPT
            !.teams = SelectSeqIdx(@, {i \in 1..Len(@) : @[i].ID \notin gone}),
            !.members = {m \in @ : m.team \notin gone},
            !.repos = [i \in 1..Len(@) |->
                         [@[i] EXCEPT !.Teams = {p \in @ : p.teamID \notin gone}]]]

\* service.AddTeamMembership: resolves the login by email, then sets the
\* user's role in the team (GitHub keeps one role per user and team, and an
\* admin of the organisation is a maintainer of every team the admin is in).
SvcAddTeamMembershipOK(f, id, email) ==
    SvcUserByEmailOK(f, email) /\ id \in TeamIDs(f)
SvcAddTeamMembership(f, id, email, role) ==
    [f EXCEPT !.members =
        {m \in @ : ~(m.team = id /\ m.email = email)}
            \cup {[team |-> id, email |-> email,
                   role |-> IF email \in f.admins THEN RoleMaintainer ELSE role]}]

\* service.DeleteTeamMembership: the role argument is not passed on; GitHub
\* removes the user from the team whatever role the user holds.
SvcDeleteTeamMembershipOK(f, id, email) ==
    SvcUserByEmailOK(f, email) /\ id \in TeamIDs(f)
SvcDeleteTeamMembership(f, id, email, role) ==
    [f EXCEPT !.members = {m \in @ : ~(m.team = id /\ m.email = email)}]


-----------------------------------------------------------------------------
(* The adapters: pkg/orgbot/github.go *)

\* A readOnlyService that hands UpdateRepoTopics and DeleteTeam to the delegate
\* as well: the fault C7 rules out.
readOnlyDelegatesWrites(op) ==
    op \in {"ListTeams", "ListTeamMembers", "WalkRepos", "WalkReposByTeam",
            "RepoByName", "ListAdmins", "UserByEmail", "UserByLogin",
            "UpdateRepoTopics", "DeleteTeam"}

\* readOnlyService: the methods that hand the call to the delegate. Every
\* other method returns without calling it.
readOnlyDelegates(op) ==
    op \in {"ListTeams", "ListTeamMembers", "WalkRepos", "WalkReposByTeam",
            "RepoByName", "ListAdmins", "UserByEmail", "UserByLogin"}

\* Whether a call of kind op made on the service of a platform reaches the
\* concrete service: always on a read-write platform, on a read-only platform
\* when readOnlyService delegates it.
Reaches(readOnly, op) == ~readOnly \/ readOnlyDelegates(op)

\* readOnlyService.CreateTeam: a copy of the team with the phony id.
readOnlyCreateTeam(team) == [team EXCEPT !.ID = phonyTeamID]

\* readOnlyService.ListTeamMembers: nothing is listed for the phony id.
readOnlyListsMembers(id) == id # phonyTeamID

\* statsService: the counter a successful call of kind op increments.
statsCounter(op) ==
    CASE op = "CreateTeam" -> "TeamsCreated"
      [] op = "UpdateTeam" -> "TeamsUpdated"
      [] op = "DeleteTeam" -> "TeamsDeleted"
      [] op = "AddTeamMembership" -> "TeamMembershipsAdded"
      [] op = "DeleteTeamMembership" -> "TeamMembershipsDeleted"
      [] OTHER -> "none"

\* A statsService that counts a call whether or not the delegate returned an
\* error: the fault C9 rules out.
statsAfterAnyAnswer(stats, op, ok) ==
    IF statsCounter(op) # "none"
    THEN [stats EXCEPT ![statsCounter(op)] = @ + 1]
    ELSE stats

\* statsService.<op>: delegate first; count only when the delegate returned no error.
statsAfter(stats, op, ok) ==
    IF ok /\ statsCounter(op) # "none"
    THEN [stats EXCEPT ![statsCounter(op)] = @ + 1]
    ELSE stats

-----------------------------------------------------------------------------
(* Desired state: org.go. An Org's team tree is held in pre-order; parent  *)
(* is the index of the team's parent in that order, 0 for a top-level team. *)

Team(name, description, previously, maintainers, members, restrictMembers, parent) ==
    [Name |-> name, Description |-> description, Previously |-> previously,
     Maintainers |-> maintainers, Members |-> members,
     RestrictMembers |-> restrictMembers, parent |-> parent]

supportedOrgName == "SEEK-Jobs"

\* The ancestors of team i of the tree, nearest first.
RECURSIVE Ancestors(_, _)
Ancestors(teams, i) ==
    IF teams[i].parent = 0 THEN <<>>
    ELSE <<teams[i].parent>> \o Ancestors(teams, teams[i].parent)

\* append(t.Maintainers, t.Members...)
AllEmails(t) == t.Maintainers \o t.Members

-----------------------------------------------------------------------------
(* Sorting and matching helpers *)

\* Index of the first team of the listing with that name, 0 when there is none.
FirstNamed(teams, name) ==
    IF \E j \in 1..Len(teams) : teams[j].Name = name
    THEN CHOOSE j \in 1..Len(teams) :
            /\ teams[j].Name = name
            /\ \A k \in 1..(j - 1) : teams[k].Name # name
    ELSE 0

RECURSIVE FindByNames(_, _)
FindByNames(teams, names) ==
    IF names = <<>> THEN 0
    ELSE IF FirstNamed(teams, Head(names)) # 0 THEN FirstNamed(teams, Head(names))
    ELSE FindByNames(teams, Tail(names))

\* A matching that looks for the desired name only and never for a previous
\* name: the fault C2 rules out.
findGitHubTeamByNameOnly(teams, want) == FirstNamed(teams, want.Name)

\* findGitHubTeamFromDesired: the index in teams of the first team matching
\* want's name, else its previous names in order; 0 stands for nil.
findGitHubTeamFromDesired(teams, want) ==
    FindByNames(teams, <<want.Name>> \o want.Previously)

-----------------------------------------------------------------------------
(* The rule engine and its rules *)

maxTeamNameLength == 35

\* Whether a restrictMembers pattern matches an email. The patterns of the
\* model are ".*" and literal emails, none of which is part of another.
Matches(pattern, email) == pattern = ".*" \/ pattern = email

\* unknownUsersRule.Run: the (team, email) pairs whose email UserByEmail does not find.
unknownUsersViolations(org, f) ==
    UNION {{<<org.Teams[i].Name, e>> :
                e \in {x \in Range(AllEmails(org.Teams[i])) : ~SvcUserByEmailOK(f, x)}} :
            i \in 1..Len(org.Teams)}

\* teamNamesUniqueRule.Run: a name is appended each time the set already holds it.
teamNamesUniqueViolations(org) ==
    LET ts == org.Teams
        dup == {i \in 1..Len(ts) : \E j \in 1..(i - 1) : ts[j].Name = ts[i].Name}
    IN  [k \in 1..Len(SelectSeqIdx(ts, dup)) |-> SelectSeqIdx(ts, dup)[k].Name]

\* usersUniqueWithinTeamRule.Run: per team, an email is appended each time it was seen before.
usersUniqueWithinTeamViolations(org) ==
    UNION {{<<org.Teams[i].Name, AllEmails(org.Teams[i])[q]>> :
                q \in {p \in 1..Len(AllEmails(org.Teams[i])) :
                          \E r \in 1..(p - 1) :
                              AllEmails(org.Teams[i])[r] = AllEmails(org.Teams[i])[p]}} :
            i \in 1..Len(org.Teams)}

\* teamNameLengthRule.Run
teamNameLengthViolations(org, maxLength) ==
    LET ts == org.Teams
        long == {i \in 1..Len(ts) : Len(ts[i].Name) > maxLength}
    IN  [k \in 1..Len(SelectSeqIdx(ts, long)) |-> SelectSeqIdx(ts, long)[k].Name]

\* listTeamRepoNames: the repositories WalkReposByTeam yields for the team.
listTeamRepoNames(f, id) ==
    {f.repos[i].Name : i \in {j \in 1..Len(f.repos) :
                                \E p \in f.repos[j].Teams : p.teamID = id}}

\* A rule that looks for the desired teams by their names only and so takes
\* a renamed team for one to delete: the fault C12 rules out.
unmatchedTeamIDsByNameOnly(org, haveTeams) ==
    {haveTeams[j].ID : j \in 1..Len(haveTeams)} \
    {haveTeams[FirstNamed(haveTeams, org.Teams[i].Name)].ID :
        i \in {k \in 1..Len(org.Teams) : FirstNamed(haveTeams, org.Teams[k].Name) # 0}}

\* activeTeamDeletionsRule.Run: the ids left in haveTeamsByID after every
\* desired team's match was removed.
unmatchedTeamIDs(org, haveTeams) ==
    {haveTeams[j].ID : j \in 1..Len(haveTeams)} \
    {haveTeams[findGitHubTeamFromDesired(haveTeams, org.Teams[i])].ID :
        i \in {k \in 1..Len(org.Teams) :
                 findGitHubTeamFromDesired(haveTeams, org.Teams[k]) # 0}}

activeTeamDeletionsViolations(org, f) ==
    {<<TeamByID(f, id).Name, listTeamRepoNames(f, id)>> :
        id \in {x \in unmatchedTeamIDs(org, SvcListTeams(f)) :
                  listTeamRepoNames(f, x) # {}}}

\* A rule that takes the restrictMembers of every team as written: the fault
\* C13 rules out.
restrictLayerAsWritten(t) == t.RestrictMembers

\* crossOrgMembershipsRule.Run: the restrictMembers stack of team i, root first.
\* A team below the top level that names no pattern gets the single pattern ".*".
restrictLayer(t) ==
    IF t.parent # 0 /\ Len(t.RestrictMembers) = 0 THEN <<".*">> ELSE t.RestrictMembers

RECURSIVE Reverse(_)
Reverse(s) == IF s = <<>> THEN <<>> ELSE Reverse(Tail(s)) \o <<Head(s)>>

restrictMembersStack(ts, i) ==
    LET path == Reverse(Ancestors(ts, i)) \o <<i>>
    IN  [k \in 1..Len(path) |-> restrictLayer(ts[path[k]])]

\* The layers of the stack of team i that no pattern of which matches the email.
unmatchedLayers(ts, i, email) ==
    {m \in 1..Len(restrictMembersStack(ts, i)) :
        ~\E pat \in Range(restrictMembersStack(ts, i)[m]) : Matches(pat, email)}

crossOrgMembershipsViolations(org) ==
    UNION {{<<org.Teams[i].Name, e>> :
                e \in {x \in Range(AllEmails(org.Teams[i])) :
                          unmatchedLayers(org.Teams, i, x) # {}}} :
            i \in 1..Len(org.Teams)}

RuleResult(violated) == IF violated THEN "RuleError" ELSE "nil"

\* NewRuleEngine: the six rules in registration order, each with the kind of
\* its result for the org ("nil" or "RuleError").
builtinRuleResults(org, f) ==
    << RuleResult(unknownUsersViolations(org, f) # {}),
       RuleResult(teamNamesUniqueViolations(org) # <<>>),
       RuleResult(usersUniqueWithinTeamViolations(org) # {}),
       RuleResult(teamNameLengthViolations(org, maxTeamNameLength) # <<>>),
       RuleResult(activeTeamDeletionsViolations(org, f) # {}),
       RuleResult(crossOrgMembershipsViolations(org) # {}) >>

\* An engine that, when a rule fails with a plain error, still reports the
\* RuleErrors collected before it: the fault C11 rules out.
RECURSIVE ruleEngineRunKeepsCollected(_, _, _)
ruleEngineRunKeepsCollected(results, k, ruleErrors) ==
    IF k > Len(results)
    THEN IF Len(ruleErrors) > 0
         THEN [kind |-> "CompositeRuleError", errors |-> ruleErrors, ran |-> k - 1]
         ELSE [kind |-> "nil", errors |-> <<>>, ran |-> k - 1]
    ELSE IF results[k] = "nil" THEN ruleEngineRunKeepsCollected(results, k + 1, ruleErrors)
    ELSE IF results[k] = "RuleError"
         THEN ruleEngineRunKeepsCollected(results, k + 1, Append(ruleErrors, k))
    ELSE IF Len(ruleErrors) > 0
         THEN [kind |-> "CompositeRuleError", errors |-> ruleErrors, ran |-> k]
         ELSE [kind |-> "error", errors |-> <<k>>, ran |-> k]

\* ruleEngine.Run over the results of the registered rules, from rule k on:
\* a result that is no RuleError is returned at once; RuleErrors are collected.
RECURSIVE ruleEngineRunFrom(_, _, _)
ruleEngineRunFrom(results, k, ruleErrors) ==
    IF k > Len(results)
    THEN IF Len(ruleErrors) > 0
         THEN [kind |-> "CompositeRuleError", errors |-> ruleErrors, ran |-> k - 1]
         ELSE [kind |-> "nil", errors |-> <<>>, ran |-> k - 1]
    ELSE IF results[k] = "nil" THEN ruleEngineRunFrom(results, k + 1, ruleErrors)
    ELSE IF results[k] = "RuleError"
         THEN ruleEngineRunFrom(results, k + 1, Append(ruleErrors, k))
    ELSE [kind |-> "error", errors |-> <<k>>, ran |-> k]

\* An engine that forgets the RuleErrors collected when the last rule returns
\* nil: the fault C10 rules out.
ruleEngineRunForgetful(results) ==
    IF results # <<>> /\ results[Len(results)] = "nil"
          /\ \A k \in 1..Len(results) : results[k] # "error"
    THEN [kind |-> "nil", errors |-> <<>>, ran |-> Len(results)]
    ELSE ruleEngineRunFrom(results, 1, <<>>)

ruleEngineRun(results) == ruleEngineRunFrom(results, 1, <<>>)

-----------------------------------------------------------------------------
(* ApplyOrg: pkg/orgbot/apply_org.go (held in src/pkg/orgbot/platform.go)  *)

EmptyOrg == [Name |-> supportedOrgName, Teams |-> <<>>]

EmptyForge ==
    [teams |-> <<>>, members |-> {}, admins |-> {}, users |-> {}, repos |-> <<>>,
     nextID |-> 1]

\* No repository operation has run since the last ApplyOrg; n counts the
\* repository operations of the behaviour.
\* follows is the repository operation that ran just before this one on the
\* real forge and returned no error ("" when none did).
NoRepoOp ==
    [op |-> "", readOnly |-> FALSE, err |-> FALSE, result |-> <<>>, n |-> 0, follows |-> ""]

\* No ApplyOrg call is running.
IdleState ==
    [pc |-> "idle", readOnly |-> FALSE, org |-> EmptyOrg, forge0 |-> EmptyForge,
     haveTeams |-> <<>>, keptTeams |-> <<>>, i |-> 0, role |-> "",
     haveMaintainers |-> {}, haveMembers |-> {}, pending |-> {},
     stats |-> ZeroStats, ruleErr |-> "", err |-> "", injected |-> FALSE]

\* updateTeam that takes no notice of the parent: the fault C28 rules out.
updateTeamModifiedByText(wantParentID, have, want) ==
    have.Description # want.Description \/ have.Name # want.Name

\* updateTeam: whether the observed team differs from the desired one in parent,
\* description or name, and the team handed to UpdateTeam when it does.
updateTeamModified(wantParentID, have, want) ==
    \/ have.ParentID # wantParentID
    \/ have.Description # want.Description
    \/ have.Name # want.Name

updateTeamArg(wantParentID, have, want) ==
    [have EXCEPT !.Name = want.Name, !.Description = want.Description,
                 !.ParentID = wantParentID]

\* createTeam: the team handed to CreateTeam.
createTeamArg(wantParentID, want) ==
    GitHubTeam(0, wantParentID, want.Name, want.Description)

\* A parent id that is always 0, whatever the desired parent: the fault C27
\* rules out.
wantParentIDOfTopLevel(s, i) == 0

\* configureTeams.process: the id of the GitHub team kept for the parent of
\* desired team i (0 when the team is a top-level team: parent == nil).
wantParentIDOf(s, i) ==
    IF s.org.Teams[i].parent = 0 THEN 0
    ELSE s.keptTeams[s.org.Teams[i].parent].team.ID

\* A keptIDs that holds the ids of the created teams only: the fault C5 rules out.
keptIDsOfCreated(s) ==
    {s.keptTeams[k].team.ID : k \in {j \in 1..Len(s.keptTeams) : s.keptTeams[j].created}}

\* configureTeams: keptIDs, the ids of the teams kept.
keptIDs(s) == {s.keptTeams[k].team.ID : k \in 1..Len(s.keptTeams)}

\* promoteAdmins.shuffleAdmins: admins move from the member list to the end
\* of the maintainer list; the other members keep their order.
shuffleAdmins(t, admins) ==
    LET isAdmin(email) == email \in admins
        notAdmin(email) == email \notin admins
    IN  [t EXCEPT !.Maintainers = @ \o SelectSeq(t.Members, isAdmin),
                  !.Members = SelectSeq(@, notAdmin)]

\* A promotion that stops at the top-level teams: the fault C29 rules out.
promoteAdminsTopLevel(org, admins) ==
    [org EXCEPT !.Teams = [i \in 1..Len(@) |->
                             IF @[i].parent = 0 THEN shuffleAdmins(@[i], admins) ELSE @[i]]]

\* promoteAdmins.process: every team of the tree is shuffled.
promoteAdminsOrg(org, admins) ==
    [org EXCEPT !.Teams = [i \in 1..Len(@) |-> shuffleAdmins(@[i], admins)]]

\* teamsByName: the map is filled in traversal order, so the last team of a
\* name wins. HasTeamNamed is the map's "ok".
HasTeamNamed(org, name) == \E i \in 1..Len(org.Teams) : org.Teams[i].Name = name
teamsByName(org, name) ==
    org.Teams[CHOOSE i \in 1..Len(org.Teams) :
                /\ org.Teams[i].Name = name
                /\ \A j \in (i + 1)..Len(org.Teams) : org.Teams[j].Name # name]

\* configureTeamMemberships: the desired emails of the kept team k in a role.
wantEmails(s, k, role) ==
    LET want == teamsByName(s.org, s.keptTeams[k].team.Name)
    IN  IF role = RoleMaintainer THEN Range(want.Maintainers) ELSE Range(want.Members)

\* updateTeamMemberships: added and deleted, the two differences of the email sets
added(want, have) == want \ have

\* A difference taken the wrong way round, so that nothing had is deleted
\* unless it is wanted: the fault C6 rules out.
deletedWanted(want, have) == have \cap want
deleted(want, have) == have \ want

haveEmails(s, role) ==
    IF role = RoleMaintainer THEN s.haveMaintainers ELSE s.haveMembers

\* The control flow of ApplyOrg between two calls on the GitHubService:
\* Advance moves the call on to the next point where it calls the service
\* (or returns), doing what the code does in between.
RECURSIVE Advance(_)
Advance(s) ==
    CASE s.pc = "team" ->
            \* configureTeams.process: the next desired team
            IF s.i > Len(s.org.Teams)
            THEN Advance([s EXCEPT !.pc = "delete", !.i = 1])
            ELSE LET want == s.org.Teams[s.i]
                     j == findGitHubTeamFromDesired(s.haveTeams, want)
                 IN  IF j # 0 /\ ~updateTeamModified(wantParentIDOf(s, s.i), s.haveTeams[j], want)
                     THEN Advance([s EXCEPT
                            !.keptTeams = Append(@, [team |-> s.haveTeams[j], created |-> FALSE]),
                            !.i = @ + 1])
                     ELSE s
      [] s.pc = "delete" ->
            \* configureTeams: the next observed team that was not kept
            IF s.i > Len(s.haveTeams) THEN [s EXCEPT !.pc = "ListAdmins", !.i = 0]
            ELSE IF s.haveTeams[s.i].ID \in keptIDs(s) THEN Advance([s EXCEPT !.i = @ + 1])
            ELSE s
      [] s.pc = "kept" ->
            \* configureTeamMemberships: the next kept team
            IF s.i > Len(s.keptTeams) THEN [s EXCEPT !.pc = "return", !.i = 0]
            ELSE IF ~HasTeamNamed(s.org, s.keptTeams[s.i].team.Name)
            THEN [s EXCEPT !.pc = "return", !.err = "expected team"]
            ELSE IF s.keptTeams[s.i].created
            THEN Advance([s EXCEPT !.pc = "add", !.role = RoleMaintainer,
                                   !.haveMaintainers = {}, !.haveMembers = {},
                                   !.pending = added(wantEmails(s, s.i, RoleMaintainer), {})])
            ELSE [s EXCEPT !.pc = "ListMaintainers"]
      [] s.pc = "add" ->
            \* updateTeamMemberships: after the adds, the deletes
            IF s.pending = {}
            THEN Advance([s EXCEPT !.pc = "del",
                            !.pending = deleted(wantEmails(s, s.i, s.role),
                                                haveEmails(s, s.role))])
            ELSE s
      [] s.pc = "del" ->
            \* after the maintainers the members, then the next kept team
            IF s.pending # {} THEN s
            ELSE IF s.role = RoleMaintainer
            THEN Advance([s EXCEPT !.pc = "add", !.role = RoleMember,
                            !.pending = added(wantEmails(s, s.i, RoleMember),
                                              s.haveMembers)])
            ELSE Advance([s EXCEPT !.pc = "kept", !.i = @ + 1, !.role = "",
                            !.haveMaintainers = {}, !.haveMembers = {}])
      [] OTHER -> s

\* A failed call that lets ApplyOrg go on to its next step: the fault C25
\* rules out.
FailedGoesOn(s) == Advance([s EXCEPT !.err = "error"])

\* A call on the service returned an error: ApplyOrg returns it.
Failed(s) == [s EXCEPT !.pc = "return", !.err = "error"]

\* The same, when the error was an outage of the forge.
Injected(s) == [Failed(s) EXCEPT !.injected = TRUE]

\* Whether the call about to be made fails for a reason of the forge's own
\* (an outage, a rate limit): only a call that reaches the forge can.
FailChoices(reach) == IF reach /\ failures < MaxFailures THEN BOOLEAN ELSE {FALSE}

Bump(fail) == IF fail THEN failures + 1 ELSE failures

\* ApplyOrg is called with the Org on a platform (a read-only one for --dry-run).
StartApplyOrg(ro) ==
    /\ st.pc = "idle"
    /\ Len(runs) + repoOp.n < MaxRuns
    /\ st' = [IdleState EXCEPT !.pc = "rules", !.readOnly = ro, !.org = orgDoc,
                               !.forge0 = forge]
    /\ calls' = <<>>
    /\ repoOp' = [NoRepoOp EXCEPT !.n = repoOp.n]
    /\ UNCHANGED <<orgDoc, changes, forge, runs, failures>>

\* The rules that call the forge, and so may fail with an error that is no RuleError.
rulesCallingForge(org) ==
    {5} \cup (IF \E i \in 1..Len(org.Teams) : AllEmails(org.Teams[i]) # <<>>
              THEN {1} ELSE {})

\* An ApplyOrg that goes on after an error of the rule engine: the fault C3
\* rules out.
afterRulesIgnored(s, kind) == [s EXCEPT !.pc = "ListTeams", !.ruleErr = kind]

\* ApplyOrg: an error of the rule engine is returned at once; without one
\* ApplyOrg goes on to list the teams.
afterRules(s, kind) ==
    IF kind = "nil" THEN [s EXCEPT !.pc = "ListTeams", !.ruleErr = kind]
    ELSE [s EXCEPT !.pc = "return", !.ruleErr = kind, !.err = kind]

\* ApplyOrg: plat.RuleEngine().Run on the org
RunRules ==
    /\ st.pc = "rules"
    /\ \E failAt \in {0} \cup (IF failures < MaxFailures
                               THEN rulesCallingForge(st.org) ELSE {}) :
        LET results == [k \in 1..6 |->
                          IF k = failAt THEN "error"
                          ELSE builtinRuleResults(st.org, forge)[k]]
            r == ruleEngineRun(results)
        IN  /\ st' = [afterRules(st, r.kind) EXCEPT !.injected = failAt # 0]
            /\ failures' = Bump(failAt # 0)
    /\ UNCHANGED <<orgDoc, changes, forge, calls, runs, repoOp>>

\* ApplyOrg: statsGitHubService.ListTeams
ListTeams ==
    /\ st.pc = "ListTeams"
    /\ \E fail \in FailChoices(Reaches(st.readOnly, "ListTeams")) :
        /\ st' = IF fail THEN Injected(st)
                 ELSE Advance([st EXCEPT !.haveTeams = SvcListTeams(forge),
                                         !.pc = "team", !.i = 1])
        /\ calls' = Append(calls, Call("ListTeams", 0, 0, NoTeam, "", "", {}, ~fail, TRUE))
        /\ failures' = Bump(fail)
    /\ UNCHANGED <<orgDoc, changes, forge, runs, repoOp>>

\* configureTeams.process -> createTeam -> CreateTeam, for a desired team without a match
CreateTeam ==
    /\ st.pc = "team"
    /\ findGitHubTeamFromDesired(st.haveTeams, st.org.Teams[st.i]) = 0
    /\ LET newT == createTeamArg(wantParentIDOf(st, st.i), st.org.Teams[st.i])
           reach == Reaches(st.readOnly, "CreateTeam")
       IN  \E fail \in FailChoices(reach) :
            LET ok == IF reach THEN ~fail /\ SvcCreateTeamOK(forge, newT) ELSE TRUE
                created == IF reach THEN SvcCreateTeamResult(forge, newT)
                           ELSE readOnlyCreateTeam(newT)
            IN  /\ forge' = IF reach /\ ok THEN SvcCreateTeam(forge, newT) ELSE forge
                /\ calls' = Append(calls,
                        Call("CreateTeam", st.i, 0, newT, "", "", {}, ok, reach))
                /\ LET counted == [st EXCEPT !.stats = statsAfter(@, "CreateTeam", ok)]
                   IN  st' = IF fail THEN Injected(counted)
                             ELSE IF ~ok THEN Failed(counted)
                             ELSE Advance([counted EXCEPT
                                !.keptTeams = Append(@, [team |-> created, created |-> TRUE]),
                                !.i = @ + 1])
                /\ failures' = Bump(fail)
    /\ UNCHANGED <<orgDoc, changes, runs, repoOp>>

\* configureTeams.process -> updateTeam -> UpdateTeam, for a matched team that differs
UpdateTeam ==
    /\ st.pc = "team"
    /\ findGitHubTeamFromDesired(st.haveTeams, st.org.Teams[st.i]) # 0
    /\ LET have == st.haveTeams[findGitHubTeamFromDesired(st.haveTeams, st.org.Teams[st.i])]
           t == updateTeamArg(wantParentIDOf(st, st.i), have, st.org.Teams[st.i])
           reach == Reaches(st.readOnly, "UpdateTeam")
       IN  \E fail \in FailChoices(reach) :
            LET ok == IF reach THEN ~fail /\ SvcUpdateTeamOK(forge, t) ELSE TRUE
            IN  /\ forge' = IF reach /\ ok THEN SvcUpdateTeam(forge, t) ELSE forge
                /\ calls' = Append(calls,
                        Call("UpdateTeam", st.i, t.ID, t, "", "", {}, ok, reach))
                /\ LET counted == [st EXCEPT !.stats = statsAfter(@, "UpdateTeam", ok)]
                   IN  st' = IF fail THEN Injected(counted)
                             ELSE IF ~ok THEN Failed(counted)
                             ELSE Advance([counted EXCEPT
                                !.keptTeams = Append(@, [team |-> t, created |-> FALSE]),
                                !.i = @ + 1])
                /\ failures' = Bump(fail)
    /\ UNCHANGED <<orgDoc, changes, runs, repoOp>>

\* configureTeams: DeleteTeam for an observed team whose id was not kept
DeleteTeam ==
    /\ st.pc = "delete"
    /\ LET id == st.haveTeams[st.i].ID
           reach == Reaches(st.readOnly, "DeleteTeam")
       IN  \E fail \in FailChoices(reach) :
            LET ok == IF reach THEN ~fail /\ SvcDeleteTeamOK(forge, id) ELSE TRUE
            IN  /\ forge' = IF reach /\ ok THEN SvcDeleteTeam(forge, id) ELSE forge
                /\ calls' = Append(calls,
                        Call("DeleteTeam", 0, id, st.haveTeams[st.i], "", "", {}, ok, reach))
                /\ LET counted == [st EXCEPT !.stats = statsAfter(@, "DeleteTeam", ok)]
                   IN  st' = IF fail THEN Injected(counted)
                             ELSE IF ~ok THEN Failed(counted)
                             ELSE Advance([counted EXCEPT !.i = @ + 1])
                /\ failures' = Bump(fail)
    /\ UNCHANGED <<orgDoc, changes, runs, repoOp>>

\* promoteAdmins: ListAdmins, then every team's admins move to its maintainers
ListAdmins ==
    /\ st.pc = "ListAdmins"
    /\ \E fail \in FailChoices(Reaches(st.readOnly, "ListAdmins")) :
        /\ st' = IF fail THEN Injected(st)
                 ELSE Advance([st EXCEPT
                        !.org = promoteAdminsOrg(@, SvcListAdmins(forge)),
                        !.pc = "kept", !.i = 1])
        /\ calls' = Append(calls,
                Call("ListAdmins", 0, 0, NoTeam, "", "", SvcListAdmins(forge), ~fail, TRUE))
        /\ failures' = Bump(fail)
    /\ UNCHANGED <<orgDoc, changes, forge, runs, repoOp>>

\* configureTeamMemberships: ListTeamMembers of a kept team that was not created,
\* first for the maintainers, then for the members
ListTeamMembers ==
    /\ st.pc \in {"ListMaintainers", "ListMembers"}
    /\ LET id == st.keptTeams[st.i].team.ID
           role == IF st.pc = "ListMaintainers" THEN RoleMaintainer ELSE RoleMember
           reach == Reaches(st.readOnly, "ListTeamMembers")
                      /\ (st.readOnly => readOnlyListsMembers(id))
       IN  \E fail \in FailChoices(reach) :
            LET ok == IF reach THEN ~fail /\ SvcListTeamMembersOK(forge, id) ELSE TRUE
                users == IF reach /\ ok THEN SvcListTeamMembers(forge, id, role) ELSE {}
            IN  /\ calls' = Append(calls,
                        Call("ListTeamMembers", st.i, id, NoTeam, "", role, users, ok, reach))
                /\ st' = IF fail THEN Injected(st) ELSE IF ~ok THEN Failed(st)
                         ELSE IF role = RoleMaintainer
                         THEN [st EXCEPT !.haveMaintainers = users, !.pc = "ListMembers"]
                         ELSE Advance([st EXCEPT !.haveMembers = users,
                                !.pc = "add", !.role = RoleMaintainer,
                                !.pending = added(wantEmails(st, st.i, RoleMaintainer),
                                                  st.haveMaintainers)])
                /\ failures' = Bump(fail)
    /\ UNCHANGED <<orgDoc, changes, forge, runs, repoOp>>

\* updateTeamMemberships: AddTeamMembership for one of the emails wanted and not had
\* (the set's ToSlice gives them in no particular order)
AddTeamMembership ==
    /\ st.pc = "add"
    /\ \E u \in st.pending :
        LET id == st.keptTeams[st.i].team.ID
            reach == Reaches(st.readOnly, "AddTeamMembership")
        IN  \E fail \in FailChoices(reach) :
             LET ok == IF reach THEN ~fail /\ SvcAddTeamMembershipOK(forge, id, u) ELSE TRUE
             IN  /\ forge' = IF reach /\ ok
                             THEN SvcAddTeamMembership(forge, id, u, st.role) ELSE forge
                 /\ calls' = Append(calls,
                        Call("AddTeamMembership", st.i, id, NoTeam, u, st.role, {}, ok, reach))
                 /\ LET counted == [st EXCEPT !.stats = statsAfter(@, "AddTeamMembership", ok)]
                    IN  st' = IF fail THEN Injected(counted)
                              ELSE IF ~ok THEN Failed(counted)
                              ELSE Advance([counted EXCEPT !.pending = @ \ {u}])
                 /\ failures' = Bump(fail)
    /\ UNCHANGED <<orgDoc, changes, runs, repoOp>>

\* updateTeamMemberships: DeleteTeamMembership for one of the emails had and not wanted
DeleteTeamMembership ==
    /\ st.pc = "del"
    /\ \E u \in st.pending :
        LET id == st.keptTeams[st.i].team.ID
            reach == Reaches(st.readOnly, "DeleteTeamMembership")
        IN  \E fail \in FailChoices(reach) :
             LET ok == IF reach THEN ~fail /\ SvcDeleteTeamMembershipOK(forge, id, u) ELSE TRUE
             IN  /\ forge' = IF reach /\ ok
                             THEN SvcDeleteTeamMembership(forge, id, u, st.role) ELSE forge
                 /\ calls' = Append(calls,
                        Call("DeleteTeamMembership", st.i, id, NoTeam, u, st.role, {}, ok, reach))
                 /\ LET counted == [st EXCEPT !.stats = statsAfter(@, "DeleteTeamMembership", ok)]
                    IN  st' = IF fail THEN Injected(counted)
                              ELSE IF ~ok THEN Failed(counted)
                              ELSE Advance([counted EXCEPT !.pending = @ \ {u}])
                 /\ failures' = Bump(fail)
    /\ UNCHANGED <<orgDoc, changes, runs, repoOp>>

\* The outcome of the ApplyOrg call that is returning.
Outcome(s, f, cs) ==
    [readOnly |-> s.readOnly, forge0 |-> s.forge0, forge1 |-> f,
     err |-> s.err,
     result |-> IF s.err = "" THEN ApplyOrgResult(s.stats) ELSE NilResult,
     injected |-> s.injected,
     writes |-> Cardinality({k \in 1..Len(cs) : cs[k].op \in WriteOps})]

\* ApplyOrg returns: (&ApplyOrgResult{stats}, nil) or (nil, err)
ReturnApplyOrg ==
    /\ st.pc = "return"
    /\ runs' = Append(runs, Outcome(st, forge, calls))
    /\ st' = IdleState
    /\ calls' = <<>>
    /\ UNCHANGED <<orgDoc, changes, forge, failures, repoOp>>

-----------------------------------------------------------------------------
(* Strings as sequences of characters: strings.ToLower, sort.Strings,      *)
(* normaliseName (helpers.go)                                              *)

Uppers == <<"A", "B", "C", "D", "E", "F", "G", "H", "I", "J", "K", "L", "M",
            "N", "O", "P", "Q", "R", "S", "T", "U", "V", "W", "X", "Y", "Z">>
Lowers == <<"a", "b", "c", "d", "e", "f", "g", "h", "i", "j", "k", "l", "m",
            "n", "o", "p", "q", "r", "s", "t", "u", "v", "w", "x", "y", "z">>
Digits == <<"0", "1", "2", "3", "4", "5", "6", "7", "8", "9">>

\* The characters of the model in byte order.
ByteOrder == <<" ", "!", "-">> \o Digits \o Uppers \o <<"_">> \o Lowers

Ord(c) == CHOOSE k \in 1..Len(ByteOrder) : ByteOrder[k] = c

\* strings.ToLower
ToLowerChar(c) ==
    IF \E k \in 1..Len(Uppers) : Uppers[k] = c
    THEN Lowers[CHOOSE k \in 1..Len(Uppers) : Uppers[k] = c]
    ELSE c

ToLower(str) == [i \in 1..Len(str) |-> ToLowerChar(str[i])]

\* a < b for Go strings: byte-wise lexicographic order
RECURSIVE StrLess(_, _)
StrLess(a, b) ==
    IF b = <<>> THEN FALSE
    ELSE IF a = <<>> THEN TRUE
    ELSE IF Head(a) # Head(b) THEN Ord(Head(a)) < Ord(Head(b))
    ELSE StrLess(Tail(a), Tail(b))

\* sort.Strings over the elements of a set of strings
RECURSIVE SortStrings(_)
SortStrings(S) ==
    IF S = {} THEN <<>>
    ELSE LET m == CHOOSE x \in S : \A y \in S \ {x} : StrLess(x, y)
         IN  <<m>> \o SortStrings(S \ {m})

strings_HasPrefix(str, prefix) ==
    Len(str) >= Len(prefix) /\ SubSeq(str, 1, Len(prefix)) = prefix

\* The length of the longest prefix of str made of characters of chars.
RECURSIVE RunLength(_, _)
RunLength(str, chars) ==
    IF str = <<>> \/ Head(str) \notin chars THEN 0
    ELSE 1 + RunLength(Tail(str), chars)

\* regexp.ReplaceAllString for the pattern [chars]{minLen,}: every maximal run
\* of at least minLen characters of chars is replaced by repl.
RECURSIVE ReplaceRuns(_, _, _, _)
ReplaceRuns(str, chars, minLen, repl) ==
    IF str = <<>> THEN <<>>
    ELSE LET n == RunLength(str, chars)
         IN  IF n >= minLen /\ n > 0
             THEN repl \o ReplaceRuns(SubSeq(str, n + 1, Len(str)), chars, minLen, repl)
             ELSE IF n > 0
             THEN SubSeq(str, 1, n)
                    \o ReplaceRuns(SubSeq(str, n + 1, Len(str)), chars, minLen, repl)
             ELSE <<Head(str)>> \o ReplaceRuns(Tail(str), chars, minLen, repl)

GoodChars == Range(Lowers) \cup Range(Digits) \cup {"-", "_"}

\* The string without a leading and a trailing run of characters of chars.
TrimRuns(str, chars) ==
    LET lead == RunLength(str, chars)
        rest == SubSeq(str, lead + 1, Len(str))
        trail == RunLength(Reverse(rest), chars)
    IN  SubSeq(rest, 1, Len(rest) - trail)

\* normaliseName with the bad characters dropped after the runs of hyphens
\* are collapsed.
normaliseNameDropsLast(name) ==
    LET IsGood(c) == c \in GoodChars
        noSpaces == ReplaceRuns(ToLower(name), {" ", "_"}, 1, <<"-">>)
        oneHyphen == ReplaceRuns(noSpaces, {"-"}, 2, <<"-">>)
        onlyGood == SelectSeq(oneHyphen, IsGood)
    IN  TrimRuns(onlyGood, {"-", "_"})

\* normaliseName
normaliseName(name) ==
    LET IsGood(c) == c \in GoodChars
        noSpaces == ReplaceRuns(ToLower(name), {" ", "_"}, 1, <<"-">>)
        onlyGood == SelectSeq(noSpaces, IsGood)
        oneHyphen == ReplaceRuns(onlyGood, {"-"}, 2, <<"-">>)
    IN  TrimRuns(oneHyphen, {"-", "_"})

-----------------------------------------------------------------------------
(* Repositories on the forge: pkg/github/github.go                         *)

RepoNames(f) == {f.repos[i].Name : i \in 1..Len(f.repos)}
RepoIndex(f, name) == CHOOSE i \in 1..Len(f.repos) : f.repos[i].Name = name

TeamPermission(teamName, permission) ==
    [TeamName |-> teamName, Permission |-> permission]

\* service.asDomainRepo: name, topics and the permission of every team of the repo
asDomainRepo(f, i) ==
    [Name |-> f.repos[i].Name, Topics |-> f.repos[i].Topics,
     Teams |-> {TeamPermission(TeamByID(f, p.teamID).Name, p.permission) :
                  p \in f.repos[i].Teams}]

\* service.RepoByName
SvcRepoByNameOK(f, name) == name \in RepoNames(f)

\* service.AddTeamRepoPermission: the team gets that permission on the repo
SvcAddTeamRepoPermissionOK(f, repoName, id) ==
    repoName \in RepoNames(f) /\ id \in TeamIDs(f)
SvcAddTeamRepoPermission(f, repoName, id, permission) ==
    [f EXCEPT !.repos[RepoIndex(f, repoName)].Teams =
        {p \in @ : p.teamID # id} \cup {[teamID |-> id, permission |-> permission]}]

\* A forge on which removing a team from a repo leaves the team on it: the
\* fault C40 rules out.
SvcDeleteTeamRepoPermissionKeeps(f, repoName, id) == f

\* service.DeleteTeamRepoPermission
SvcDeleteTeamRepoPermissionOK(f, repoName, id) ==
    repoName \in RepoNames(f) /\ id \in TeamIDs(f)
SvcDeleteTeamRepoPermission(f, repoName, id) ==
    [f EXCEPT !.repos[RepoIndex(f, repoName)].Teams = {p \in @ : p.teamID # id}]

\* service.UpdateRepoTopics: replaces all topics of the repo
SvcUpdateRepoTopicsOK(f, repoName) == repoName \in RepoNames(f)
SvcUpdateRepoTopics(f, repoName, topics) ==
    [f EXCEPT !.repos[RepoIndex(f, repoName)].Topics = topics]

-----------------------------------------------------------------------------
(* Repository operations: repo_topics.go, repo_teams.go                    *)

adminTopicPrefix == <<"a", "d", "m", "i", "n", "-">>
maxTopicLength == 35

\* One call of a repository operation on its GitHubService.
RepoCall(op, repo, id, permission, topics, ok, delegated) ==
    [op |-> op, repo |-> repo, id |-> id, permission |-> permission,
     topics |-> topics, ok |-> ok, delegated |-> delegated]

\* An admin topic that is never cut: the fault C15 rules out.
adminTopicOfUncut(teamName) == adminTopicPrefix \o normaliseName(teamName)

\* rectifyRepoAdminTopics: the admin topic of a team with admin permission
adminTopicOf(teamName) ==
    LET adminTopic == adminTopicPrefix \o normaliseName(teamName)
    IN  IF Len(adminTopic) >= maxTopicLength
        THEN SubSeq(adminTopic, 1, maxTopicLength - 1)
        ELSE adminTopic

\* rectifyRepoAdminTopics: the topics wanted for the repo
wantTopics(r) ==
    {topic \in Range(r.Topics) : ~strings_HasPrefix(topic, adminTopicPrefix)}
        \cup {adminTopicOf(tp.TeamName) :
                tp \in {x \in r.Teams : x.Permission = RepoPermissionAdmin}}

\* A rectifyRepoAdminTopics that compares the topics of the repo with the
\* admin topics alone, so that a repo with any other topic is always taken
\* for changed: the fault C14 rules out.
rectifyRepoAdminTopicsAgainstAdminOnly(r) ==
    IF Range(r.Topics) = {adminTopicOf(tp.TeamName) :
                            tp \in {x \in r.Teams : x.Permission = RepoPermissionAdmin}}
    THEN [changed |-> FALSE, repo |-> r]
    ELSE [changed |-> TRUE, repo |-> [r EXCEPT !.Topics = SortStrings(wantTopics(r))]]

\* rectifyRepoAdminTopics: whether the repo was changed, and the repo afterwards
rectifyRepoAdminTopics(r) ==
    IF Range(r.Topics) = wantTopics(r)
    THEN [changed |-> FALSE, repo |-> r]
    ELSE [changed |-> TRUE, repo |-> [r EXCEPT !.Topics = SortStrings(wantTopics(r))]]

\* The progress of a repository operation: the forge, the calls made, whether
\* the operation has failed, and its counters.
StartOfOp(f) ==
    [f |-> f, cs |-> <<>>, err |-> FALSE, injected |-> FALSE, removed |-> 0, added |-> 0]

\* One call on the service of the platform: call number failAt fails for a
\* reason of the forge's own; a call the read-only adapter answers itself
\* succeeds and leaves the forge alone.
issue(acc, c, reach, natural, failAt, fNew) ==
    LET fail == reach /\ Len(acc.cs) + 1 = failAt
        ok == IF reach THEN natural /\ ~fail ELSE TRUE
    IN  [acc EXCEPT !.cs = Append(@, [c EXCEPT !.ok = ok, !.delegated = reach]),
                    !.f = IF reach /\ ok THEN fNew ELSE @,
                    !.err = ~ok,
                    !.injected = @ \/ fail]

\* UpdateAdminTopics: UpdateRepoTopics for each repo collected, in order
RECURSIVE updateTopicsLoop(_, _, _, _, _)
updateTopicsLoop(acc, repos, k, ro, failAt) ==
    IF acc.err \/ k > Len(repos) THEN acc
    ELSE updateTopicsLoop(
            issue(acc,
                  RepoCall("UpdateRepoTopics", repos[k].Name, 0, "", repos[k].Topics,
                           TRUE, TRUE),
                  Reaches(ro, "UpdateRepoTopics"),
                  SvcUpdateRepoTopicsOK(acc.f, repos[k].Name), failAt,
                  SvcUpdateRepoTopics(acc.f, repos[k].Name, repos[k].Topics)),
            repos, k + 1, ro, failAt)

\* UpdateAdminTopics: the repos WalkRepos yields that rectifyRepoAdminTopics changed
reposToUpdate(f) ==
    LET changed == {i \in 1..Len(f.repos) : rectifyRepoAdminTopics(asDomainRepo(f, i)).changed}
        idx == SelectSeqIdx([i \in 1..Len(f.repos) |-> i], changed)
    IN  [k \in 1..Len(idx) |-> rectifyRepoAdminTopics(asDomainRepo(f, idx[k])).repo]

UpdateAdminTopicsRun(f, ro, failAt) ==
    LET walked == issue(StartOfOp(f), RepoCall("WalkRepos", <<>>, 0, "", <<>>, TRUE, TRUE),
                        Reaches(ro, "WalkRepos"), TRUE, failAt, f)
    IN  IF walked.err THEN walked
        ELSE [updateTopicsLoop(walked, reposToUpdate(f), 1, ro, failAt)
                EXCEPT !.added = Len(reposToUpdate(f))]

\* UpdateRepoTeams: teamsByName[name].ID, the last listed team of that name
repoTeamID(teams, name) ==
    teams[CHOOSE j \in 1..Len(teams) :
            /\ teams[j].Name = name
            /\ \A k \in (j + 1)..Len(teams) : teams[k].Name # name].ID

\* A validateRepoTeamsChangeSet that looks at the teams to add alone: the
\* fault C18 rules out.
validateAddTeamsOnly(changeSet, teams) ==
    \A tp \in Range(changeSet.AddTeams) : \E t \in Range(teams) : t.Name = tp.TeamName

\* validateRepoTeamsChangeSet: every team of the change set is a listed team
validateRepoTeamsChangeSet(changeSet, teams) ==
    \A tp \in Range(changeSet.AddTeams \o changeSet.RemoveTeams) :
        \E t \in Range(teams) : t.Name = tp.TeamName

\* A teamPermissionExists that goes by the name of the team alone: the fault
\* C16 rules out.
teamPermissionExistsByName(haveTeamPermissions, wantTeamPermission) ==
    \E have \in haveTeamPermissions : have.TeamName = wantTeamPermission.TeamName

\* UpdateRepoTeams.teamPermissionExists: some permission of the repo is equal
\* to the wanted one in team name and in permission
teamPermissionExists(haveTeamPermissions, wantTeamPermission) ==
    \E have \in haveTeamPermissions : have = wantTeamPermission

\* A repoExcluded that compares the names as they are written: the fault C17
\* rules out.
repoExcludedAsWritten(changeSet, r) ==
    \E rn \in Range(changeSet.ExcludeRepos) : r.Name = rn

\* UpdateRepoTeams.repoExcluded
repoExcluded(changeSet, r) ==
    \E rn \in Range(changeSet.ExcludeRepos) : ToLower(r.Name) = ToLower(rn)

\* UpdateRepoTeams.walkFn: the removals for repo r, from change k on
RECURSIVE removeTeamsLoop(_, _, _, _, _, _, _)
removeTeamsLoop(acc, r, changeSet, teams, k, ro, failAt) ==
    IF acc.err \/ k > Len(changeSet.RemoveTeams) THEN acc
    ELSE LET tp == changeSet.RemoveTeams[k]
             id == repoTeamID(teams, tp.TeamName)
             next == IF teamPermissionExists(r.Teams, tp)
                     THEN LET a == issue(acc,
                                     RepoCall("DeleteTeamRepoPermission", r.Name, id, "",
                                              <<>>, TRUE, TRUE),
                                     Reaches(ro, "DeleteTeamRepoPermission"),
                                     SvcDeleteTeamRepoPermissionOK(acc.f, r.Name, id), failAt,
                                     SvcDeleteTeamRepoPermission(acc.f, r.Name, id))
                          IN  IF a.err THEN a ELSE [a EXCEPT !.removed = @ + 1]
                     ELSE acc
         IN  removeTeamsLoop(next, r, changeSet, teams, k + 1, ro, failAt)

\* UpdateRepoTeams.walkFn: the additions for repo r, from change k on
RECURSIVE addTeamsLoop(_, _, _, _, _, _, _)
addTeamsLoop(acc, r, changeSet, teams, k, ro, failAt) ==
    IF acc.err \/ k > Len(changeSet.AddTeams) THEN acc
    ELSE LET tp == changeSet.AddTeams[k]
             id == repoTeamID(teams, tp.TeamName)
             next == IF ~teamPermissionExists(r.Teams, tp)
                     THEN LET a == issue(acc,
                                     RepoCall("AddTeamRepoPermission", r.Name, id,
                                              tp.Permission, <<>>, TRUE, TRUE),
                                     Reaches(ro, "AddTeamRepoPermission"),
                                     SvcAddTeamRepoPermissionOK(acc.f, r.Name, id), failAt,
                                     SvcAddTeamRepoPermission(acc.f, r.Name, id, tp.Permission))
                          IN  IF a.err THEN a ELSE [a EXCEPT !.added = @ + 1]
                     ELSE acc
         IN  addTeamsLoop(next, r, changeSet, teams, k + 1, ro, failAt)

\* UpdateRepoTeams.walkFn
walkFn(acc, r, changeSet, teams, ro, failAt) ==
    IF repoExcluded(changeSet, r) THEN acc
    ELSE addTeamsLoop(removeTeamsLoop(acc, r, changeSet, teams, 1, ro, failAt),
                      r, changeSet, teams, 1, ro, failAt)

\* service.WalkRepos: each repo is converted when it is reached, then walked
RECURSIVE walkAllRepos(_, _, _, _, _, _)
walkAllRepos(acc, i, changeSet, teams, ro, failAt) ==
    IF acc.err \/ i > Len(acc.f.repos) THEN acc
    ELSE walkAllRepos(walkFn(acc, asDomainRepo(acc.f, i), changeSet, teams, ro, failAt),
                      i + 1, changeSet, teams, ro, failAt)

\* UpdateRepoTeams with OnlyRepos: RepoByName for each name, then walkFn
RECURSIVE walkOnlyRepos(_, _, _, _, _, _)
walkOnlyRepos(acc, k, changeSet, teams, ro, failAt) ==
    IF acc.err \/ k > Len(changeSet.OnlyRepos) THEN acc
    ELSE LET name == changeSet.OnlyRepos[k]
             got == issue(acc, RepoCall("RepoByName", name, 0, "", <<>>, TRUE, TRUE),
                          Reaches(ro, "RepoByName"), SvcRepoByNameOK(acc.f, name),
                          failAt, acc.f)
         IN  IF got.err THEN got
             ELSE walkOnlyRepos(
                    walkFn(got, asDomainRepo(got.f, RepoIndex(got.f, name)),
                           changeSet, teams, ro, failAt),
                    k + 1, changeSet, teams, ro, failAt)

UpdateRepoTeamsRun(f, changeSet, ro, failAt) ==
    LET listed == issue(StartOfOp(f), RepoCall("ListTeams", <<>>, 0, "", <<>>, TRUE, TRUE),
                        Reaches(ro, "ListTeams"), TRUE, failAt, f)
        teams == SvcListTeams(f)
    IN  IF listed.err THEN listed
        ELSE IF ~validateRepoTeamsChangeSet(changeSet, teams)
        THEN [listed EXCEPT !.err = TRUE]
        ELSE IF Len(changeSet.OnlyRepos) > 0
        THEN walkOnlyRepos(listed, 1, changeSet, teams, ro, failAt)
        ELSE LET walked == issue(listed,
                              RepoCall("WalkRepos", <<>>, 0, "", <<>>, TRUE, TRUE),
                              Reaches(ro, "WalkRepos"), TRUE, failAt, f)
             IN  IF walked.err THEN walked
                 ELSE walkAllRepos(walked, 1, changeSet, teams, ro, failAt)

-----------------------------------------------------------------------------
(* The values the model draws from *)

NameList     == << <<"a">>, <<"b">> >>           \* the names of the forge's teams
Names        == Range(NameList) \cup {<<"c">>}    \* the names of desired teams
PreviousNames == {<<"b">>}
Descriptions == {"d", "e"}
EmailList    == <<"u1", "u2">>
Emails       == Range(EmailList)
RepoName     == <<"r">>
Topics       == {<<"x">>, adminTopicPrefix \o <<"a">>}

\* The team permissions a change set may name: "c" is no team of the forge.
ChangeAdditions ==
    {TeamPermission(<<"b">>, RepoPermissionAdmin), TeamPermission(<<"c">>, RepoPermissionAdmin)}
ChangeRemovals ==
    {TeamPermission(<<"a">>, RepoPermissionAdmin)}

\* RepoTeamsChangeSet{}: no change.
NoChanges == [AddTeams |-> <<>>, RemoveTeams |-> <<>>, ExcludeRepos |-> <<>>, OnlyRepos |-> <<>>]

\* RepoTeamsChangeSet values: at most one addition, one removal, one excluded
\* repo (named in upper case) and one repo to limit the change to.
ChangeSets ==
    [AddTeams : {<<>>} \cup {<<tp>> : tp \in ChangeAdditions},
     RemoveTeams : {<<>>} \cup {<<tp>> : tp \in ChangeRemovals},
     ExcludeRepos : {<<>>, <<<<"R">>>>},
     OnlyRepos : {<<>>, <<RepoName>>}]

\* The number of calls the operation makes when none fails: the choices of
\* the call that fails.
FailAtChoices(n) == IF failures < MaxFailures THEN 0..n ELSE {0}

\* The operation of the record, when it ran on the real forge without an error.
ranOnForge(op) == IF op.readOnly \/ op.err THEN "" ELSE op.op

\* cli repos update-teams [--dry-run]: UpdateRepoTeams as a whole
UpdateRepoTeams(ro) ==
    /\ st.pc = "idle"
    /\ Len(runs) + repoOp.n < MaxRuns
    /\ \E failAt \in FailAtChoices(Len(UpdateRepoTeamsRun(forge, changes, ro, 0).cs)) :
        LET r == UpdateRepoTeamsRun(forge, changes, ro, failAt)
        IN  /\ forge' = r.f
            /\ calls' = r.cs
            /\ failures' = Bump(r.injected)
            /\ repoOp' = [op |-> "UpdateRepoTeams", readOnly |-> ro, err |-> r.err,
                          result |-> IF r.err THEN <<>>
                                     ELSE [TeamPermissionsRemoved |-> r.removed,
                                           TeamPermissionsAdded |-> r.added],
                          n |-> repoOp.n + 1, follows |-> ranOnForge(repoOp)]
    /\ UNCHANGED <<orgDoc, changes, st, runs>>

\* cli repos update-admin-topics [--dry-run]: UpdateAdminTopics as a whole
UpdateAdminTopics(ro) ==
    /\ st.pc = "idle"
    /\ Len(runs) + repoOp.n < MaxRuns
    /\ \E failAt \in FailAtChoices(Len(UpdateAdminTopicsRun(forge, ro, 0).cs)) :
        LET r == UpdateAdminTopicsRun(forge, ro, failAt)
        IN  /\ forge' = r.f
            /\ calls' = r.cs
            /\ failures' = Bump(r.injected)
            /\ repoOp' = [op |-> "UpdateAdminTopics", readOnly |-> ro, err |-> r.err,
                          result |-> IF r.err THEN <<>> ELSE [ReposUpdated |-> r.added],
                          n |-> repoOp.n + 1, follows |-> ranOnForge(repoOp)]
    /\ UNCHANGED <<orgDoc, changes, st, runs>>

-----------------------------------------------------------------------------
(* Initial states: an Org document and a GitHub organisation               *)

\* Listings of n teams with ids 1..n in listing order, the first n names (the
\* names of an organisation's teams are distinct), and a hierarchy without cycles.
HaveTeamLists(n) ==
    {ts \in [1..n -> [ID : 1..n, ParentID : 0..n, Name : Range(NameList),
                      Description : {"d"}]] :
        /\ n <= Len(NameList)
        /\ \A i \in 1..n : ts[i].ID = i /\ ts[i].Name = NameList[i]
        /\ \A i \in 1..n : ts[i].ParentID \notin {i} \cup Descendants([teams |-> ts], i)}

\* Team trees of n teams in pre-order, without memberships; a previous name
\* is a name other than the team's own.
WantTeamLists(n) ==
    {ts \in [1..n -> [Name : Names, Description : Descriptions,
                      Previously : {<<>>} \cup {<<x>> : x \in PreviousNames},
                      Maintainers : {<<>>}, Members : {<<>>},
                      RestrictMembers : {<<>>}, parent : 0..n]] :
        \A i \in 1..n :
            /\ ts[i].Previously # <<ts[i].Name>>
            /\ ts[i].parent < i
            /\ ts[i].parent # 0 => ts[i].parent \in {i - 1} \cup Range(Ancestors(ts, i - 1))}

ForgeOf(teams, members, admins, users, repos) ==
    [teams |-> teams, members |-> members, admins |-> admins, users |-> users,
     repos |-> repos, nextID |-> Len(teams) + 1]

\* Every assignment of at most one role in team id to each email.
Memberships(id) ==
    {{[team |-> id, email |-> e, role |-> r[e]] : e \in {x \in Emails : r[x] # ""}} :
        r \in [Emails -> Roles \cup {""}]}

\* The lists of a desired team: each email is a maintainer, a member or neither.
MemberLists ==
    {[Maintainers |-> SelectSeqIdx(EmailList, {k \in 1..Len(EmailList) : r[EmailList[k]] = RoleMaintainer}),
      Members |-> SelectSeqIdx(EmailList, {k \in 1..Len(EmailList) : r[EmailList[k]] = RoleMember})] :
        r \in [Emails -> Roles \cup {""}]}

\* Team trees and listings without memberships.
InitTeams ==
    /\ \E n \in 0..MaxWantTeams : \E ts \in WantTeamLists(n) :
            orgDoc = [Name |-> supportedOrgName, Teams |-> ts]
    /\ \E n \in 0..MaxHaveTeams : \E ts \in HaveTeamLists(n) :
            forge = ForgeOf(ts, {}, {}, Emails, <<>>)
    /\ changes = NoChanges

\* One desired team with memberships against one team with memberships.
InitMemberships ==
    /\ \E name \in Range(NameList) : \E ml \in MemberLists :
            orgDoc = [Name |-> supportedOrgName,
                      Teams |-> <<Team(name, "d", <<>>, ml.Maintainers, ml.Members,
                                       <<".*">>, 0)>>]
    /\ \E ms \in Memberships(1) : \E admins \in SUBSET {EmailList[1]} :
            /\ \A m \in ms : m.email \in admins => m.role = RoleMaintainer
            /\ forge = ForgeOf(<<GitHubTeam(1, 0, <<"a">>, "d")>>, ms, admins, Emails, <<>>)
    /\ changes = NoChanges

\* One desired team with memberships, and users the audit document does not know.
InitUsers ==
    /\ \E ml \in MemberLists :
            orgDoc = [Name |-> supportedOrgName,
                      Teams |-> <<Team(<<"a">>, "d", <<>>, ml.Maintainers, ml.Members,
                                       <<".*">>, 0)>>]
    /\ \E users \in (SUBSET Emails) \ {Emails} :
            forge = ForgeOf(<<GitHubTeam(1, 0, <<"a">>, "d")>>, {}, {}, users, <<>>)
    /\ changes = NoChanges

\* Two teams and one repository with team permissions and topics.
InitRepos ==
    /\ orgDoc = [Name |-> supportedOrgName,
                 Teams |-> <<Team(<<"a">>, "d", <<>>, <<>>, <<>>, <<>>, 0)>>]
    /\ \E perms \in SUBSET {[teamID |-> 1, permission |-> RepoPermissionAdmin],
                            [teamID |-> 2, permission |-> RepoPermissionRead]} :
       \E topics \in {<<>>} \cup {<<t>> : t \in Topics} :
            forge = ForgeOf(<<GitHubTeam(1, 0, <<"a">>, "d"), GitHubTeam(2, 0, <<"b">>, "d")>>,
                            {}, {}, Emails,
                            <<[Name |-> RepoName, Topics |-> topics, Teams |-> perms]>>)
    /\ changes \in ChangeSets

Init ==
    /\ InitTeams \/ InitMemberships \/ InitUsers \/ InitRepos
    /\ st = IdleState
    /\ calls = <<>>
    /\ runs = <<>>
    /\ failures = 0
    /\ repoOp = NoRepoOp

Next ==
    \/ \E ro \in BOOLEAN : StartApplyOrg(ro)
    \/ RunRules
    \/ ListTeams
    \/ CreateTeam
    \/ UpdateTeam
    \/ DeleteTeam
    \/ ListAdmins
    \/ ListTeamMembers
    \/ AddTeamMembership
    \/ DeleteTeamMembership
    \/ ReturnApplyOrg
    \/ \E ro \in BOOLEAN : UpdateRepoTeams(ro)
    \/ \E ro \in BOOLEAN : UpdateAdminTopics(ro)

Spec == Init /\ [][Next]_vars

-----------------------------------------------------------------------------
(* The rule engine on its own: any list of registered rules, each with the *)
(* kind of result it returns for the org.                                  *)

MaxRules == 4           \* rules registered with an engine

RuleResultKinds == {"nil", "RuleError", "error"}

OrgNames == {supportedOrgName, "acme"}

InitRules ==
    /\ \E n \in 0..MaxRules : \E results \in [1..n -> RuleResultKinds] :
            st = [pc |-> "Run", results |-> results, out |-> "none",
                  errors |-> <<>>, ran |-> 0, OrgName |-> ""]
    /\ \E name \in OrgNames : orgDoc = [Name |-> name, Teams |-> <<>>]
    /\ changes = NoChanges
    /\ forge = EmptyForge
    /\ calls = <<>>
    /\ runs = <<>>
    /\ failures = 0
    /\ repoOp = NoRepoOp

\* ruleEngine.Run is called and returns
RuleEngineRun ==
    /\ st.pc = "Run"
    /\ LET r == ruleEngineRun(st.results)
       IN  st' = [st EXCEPT !.pc = "done", !.out = r.kind, !.errors = r.errors,
                            !.ran = r.ran,
                            !.OrgName = IF r.kind = "CompositeRuleError"
                                        THEN orgDoc.Name ELSE ""]
    /\ UNCHANGED <<orgDoc, changes, forge, calls, runs, failures, repoOp>>

NextRules == RuleEngineRun

SpecRules == InitRules /\ [][NextRules]_vars

-----------------------------------------------------------------------------
(* The rules that read the forge's teams and the team tree, each on its    *)
(* own: activeTeamDeletionsRule and crossOrgMembershipsRule.               *)

\* Up to two repositories, each with admin permissions for some of n teams.
RepoLists(n) ==
    LET perms == SUBSET {[teamID |-> id, permission |-> RepoPermissionAdmin] : id \in 1..n}
    IN  {<<>>} \cup {<<[Name |-> RepoName, Topics |-> <<>>, Teams |-> p]>> : p \in perms}
             \cup {<<[Name |-> RepoName, Topics |-> <<>>, Teams |-> p],
                       [Name |-> <<"s">>, Topics |-> <<>>, Teams |-> q]>> :
                        p \in perms, q \in perms}

RestrictMembersLists == {<<>>, <<".*">>, <<"u1">>, <<"u1", "u2">>}

\* Team trees against the teams of a forge and the repositories they are on.
InitTeamDeletions ==
    /\ \E n \in 0..MaxWantTeams : \E ts \in WantTeamLists(n) :
            /\ \A i \in 1..n : ts[i].Description = "d"
            /\ orgDoc = [Name |-> supportedOrgName, Teams |-> ts]
    /\ \E n \in 0..MaxHaveTeams : \E ts \in HaveTeamLists(n) : \E repos \in RepoLists(n) :
            /\ \A i \in 1..n : ts[i].ParentID = 0
            /\ forge = ForgeOf(ts, {}, {}, Emails, repos)

\* Team trees with memberships and restrictMembers patterns.
InitRestrictMembers ==
    /\ \E n \in 1..MaxWantTeams :
       \E ts \in [1..n -> [Name : {<<"a">>}, Description : {"d"}, Previously : {<<>>},
                           Maintainers : {ml.Maintainers : ml \in MemberLists},
                           Members : {ml.Members : ml \in MemberLists},
                           RestrictMembers : RestrictMembersLists, parent : 0..n]] :
            /\ \A i \in 1..n :
                /\ ts[i].parent < i
                /\ ts[i].parent # 0 =>
                        ts[i].parent \in {i - 1} \cup Range(Ancestors(ts, i - 1))
                /\ [Maintainers |-> ts[i].Maintainers, Members |-> ts[i].Members]
                        \in MemberLists
            /\ orgDoc = [Name |-> supportedOrgName, Teams |-> ts]
    /\ forge = EmptyForge

InitOrgRules ==
    /\ InitTeamDeletions \/ InitRestrictMembers
    /\ st = [pc |-> "Run", rule |-> "", out |-> "none", violations |-> {}]
    /\ changes = NoChanges
    /\ calls = <<>>
    /\ runs = <<>>
    /\ failures = 0
    /\ repoOp = NoRepoOp

\* activeTeamDeletionsRule.Run on the org; a failing ListTeams or
\* WalkReposByTeam makes it return that error.
RunActiveTeamDeletionsRule ==
    /\ st.pc = "Run"
    /\ \E fail \in BOOLEAN :
        LET v == activeTeamDeletionsViolations(orgDoc, forge)
        IN  st' = [pc |-> "done", rule |-> "activeTeamDeletions",
                   out |-> IF fail THEN "error" ELSE RuleResult(v # {}),
                   violations |-> IF fail THEN {} ELSE v]
    /\ UNCHANGED <<orgDoc, changes, forge, calls, runs, failures, repoOp>>

\* crossOrgMembershipsRule.Run on the org
RunCrossOrgMembershipsRule ==
    /\ st.pc = "Run"
    /\ LET v == crossOrgMembershipsViolations(orgDoc)
       IN  st' = [pc |-> "done", rule |-> "crossOrgMemberships",
                  out |-> RuleResult(v # {}), violations |-> v]
    /\ UNCHANGED <<orgDoc, changes, forge, calls, runs, failures, repoOp>>

NextOrgRules == RunActiveTeamDeletionsRule \/ RunCrossOrgMembershipsRule

SpecOrgRules == InitOrgRules /\ [][NextOrgRules]_vars

-----------------------------------------------------------------------------
(* UpdateAdminTopics on its own: repositories with topics in any order and *)
(* teams whose names need normalising or cutting.                          *)

\* A name that makes an admin topic of maxTopicLength characters.
LongTeamName == [i \in 1..(maxTopicLength - Len(adminTopicPrefix)) |-> "t"]

\* The teams of the forge: two of them have the same normalised name.
TopicTeams ==
    << GitHubTeam(1, 0, <<"a">>, "d"),
       GitHubTeam(2, 0, <<"B", " ", "b">>, "d"),
       GitHubTeam(3, 0, <<"b", "_", "b">>, "d"),
       GitHubTeam(4, 0, LongTeamName, "d") >>

\* Topic lists as the forge may hold them: unsorted, with an admin topic
\* that is due, and with one that is stale.
TopicLists ==
    {<<>>, << <<"x">> >>, << <<"z">>, <<"x">> >>,
     << adminTopicPrefix \o <<"a">> >>,
     << adminTopicPrefix \o <<"b", "-", "b">>, <<"x">> >>,
     << <<"x">>, adminTopicPrefix \o <<"z">> >>}

TopicTeamPermissions ==
    {ps \in SUBSET ({[teamID |-> id, permission |-> RepoPermissionAdmin] : id \in 1..4}
                        \cup {[teamID |-> 1, permission |-> RepoPermissionRead]}) :
        /\ \A p, q \in ps : p.teamID = q.teamID => p = q
        /\ Cardinality(ps) <= 2}

InitTopics ==
    /\ \E topics \in TopicLists : \E ps \in TopicTeamPermissions :
       \E more \in {<<>>,
                    <<[Name |-> <<"s">>, Topics |-> << <<"x">> >>,
                       Teams |-> {[teamID |-> 2, permission |-> RepoPermissionAdmin]}]>>} :
            forge = ForgeOf(TopicTeams, {}, {}, Emails,
                            <<[Name |-> RepoName, Topics |-> topics, Teams |-> ps]>> \o more)
    /\ orgDoc = EmptyOrg
    /\ changes = NoChanges
    /\ st = IdleState
    /\ calls = <<>>
    /\ runs = <<>>
    /\ failures = 0
    /\ repoOp = NoRepoOp

NextTopics == \E ro \in BOOLEAN : UpdateAdminTopics(ro)

SpecTopics == InitTopics /\ [][NextTopics]_vars

-----------------------------------------------------------------------------
(* UpdateRepoTeams on its own: change sets against two repositories        *)

\* The additions and removals of a change set: "c" is no team of the forge.
RepoTeamsAdditions ==
    {<<>>,
     <<TeamPermission(<<"b">>, RepoPermissionAdmin)>>,
     <<TeamPermission(<<"a">>, RepoPermissionRead), TeamPermission(<<"b">>, RepoPermissionAdmin)>>,
     <<TeamPermission(<<"b">>, RepoPermissionRead), TeamPermission(<<"b">>, RepoPermissionAdmin)>>,
     <<TeamPermission(<<"c">>, RepoPermissionAdmin)>>}
RepoTeamsRemovals ==
    {<<>>,
     <<TeamPermission(<<"a">>, RepoPermissionAdmin)>>,
     <<TeamPermission(<<"b">>, RepoPermissionAdmin), TeamPermission(<<"a">>, RepoPermissionAdmin)>>,
     <<TeamPermission(<<"c">>, RepoPermissionRead)>>}

\* Repositories "r" and "s" of teams a and b; a change set that may exclude
\* "r" under the name "R" and may be limited to repos, one of them unknown.
InitRepoTeams ==
    /\ \E pa \in {"", RepoPermissionAdmin, RepoPermissionRead} :
       \E pb \in {"", RepoPermissionRead} :
       \E more \in {<<>>,
                    <<[Name |-> <<"s">>, Topics |-> <<>>,
                       Teams |-> {[teamID |-> 2, permission |-> RepoPermissionRead]}]>>} :
            forge = ForgeOf(<<GitHubTeam(1, 0, <<"a">>, "d"), GitHubTeam(2, 0, <<"b">>, "d")>>,
                            {}, {}, Emails,
                            <<[Name |-> RepoName, Topics |-> <<>>,
                               Teams |-> {p \in {[teamID |-> 1, permission |-> pa],
                                                 [teamID |-> 2, permission |-> pb]} :
                                            p.permission # ""}]>>
                                \o more)
    /\ changes \in [AddTeams : RepoTeamsAdditions,
                    RemoveTeams : RepoTeamsRemovals,
                    ExcludeRepos : {<<>>, <<<<"R">>>>, <<<<"s">>>>},
                    OnlyRepos : {<<>>, <<RepoName>>, <<<<"s">>, RepoName>>, <<<<"q">>>>}]
    /\ orgDoc = EmptyOrg
    /\ st = IdleState
    /\ calls = <<>>
    /\ runs = <<>>
    /\ failures = 0
    /\ repoOp = NoRepoOp

NextRepoTeams == \E ro \in BOOLEAN : UpdateRepoTeams(ro)

SpecRepoTeams == InitRepoTeams /\ [][NextRepoTeams]_vars

-----------------------------------------------------------------------------
(* The worker: ListenForEvents over the queue (package http). The queue is  *)
(* a FIFO queue with one message group: its first message is the one a      *)
(* receive returns, and nothing is returned while that message is in flight. *)

MaxReceives == 3

\* hub.TeamEvent as far as the worker reads it. Action "" is a nil Action,
\* RepoNil a nil Repo; Team and Org are those of the event's organisation.
TeamEvent(action, repoNil, fork) ==
    [Action |-> action, RepoNil |-> repoNil, Fork |-> fork, RepoName |-> <<"r">>,
     Owner |-> supportedOrgName, Org |-> supportedOrgName, TeamID |-> 1]

\* message: bodyOK is whether the body of the queue message unmarshals into a
\* message, payloadOK whether its Payload unmarshals into a hub.TeamEvent.
Message(deliveryID, bodyOK, payloadOK, event) ==
    [DeliveryID |-> deliveryID, bodyOK |-> bodyOK, payloadOK |-> payloadOK, event |-> event]

NoMessage == Message(0, FALSE, FALSE, TeamEvent("", TRUE, FALSE))

\* A call on the queue: receive with the message and the receipt handle it
\* returned (handle 0 for none), delete with the handle it was given.
QueueCall(op, handle, m, ok) == [op |-> op, handle |-> handle, message |-> m, ok |-> ok]

\* A call of the worker into orgbot.
DispatchCall(op, org, repo, teamID, ok) ==
    [op |-> op, org |-> org, repo |-> repo, teamID |-> teamID, ok |-> ok]

\* UpdateRepoAdminTopics after RepoByName has answered: UpdateRepoTopics when
\* rectifyRepoAdminTopics changed the repo; ReposUpdated is 1 either way.
updateRepoAdminTopicsOf(got, rectified, ro, failAt) ==
    IF got.err THEN got
    ELSE IF ~rectified.changed THEN [got EXCEPT !.added = 1]
    ELSE [issue(got,
                RepoCall("UpdateRepoTopics", rectified.repo.Name, 0, "",
                         rectified.repo.Topics, TRUE, TRUE),
                Reaches(ro, "UpdateRepoTopics"),
                SvcUpdateRepoTopicsOK(got.f, rectified.repo.Name), failAt,
                SvcUpdateRepoTopics(got.f, rectified.repo.Name, rectified.repo.Topics))
            EXCEPT !.added = 1]

\* UpdateRepoAdminTopics: RepoByName, rectifyRepoAdminTopics, UpdateRepoTopics
UpdateRepoAdminTopicsRun(f, repoName, ro, failAt) ==
    updateRepoAdminTopicsOf(
        issue(StartOfOp(f), RepoCall("RepoByName", repoName, 0, "", <<>>, TRUE, TRUE),
              Reaches(ro, "RepoByName"), SvcRepoByNameOK(f, repoName), failAt, f),
        IF SvcRepoByNameOK(f, repoName)
        THEN rectifyRepoAdminTopics(asDomainRepo(f, RepoIndex(f, repoName)))
        ELSE [changed |-> FALSE, repo |-> <<>>],
        ro, failAt)

\* UpdateTeamAdminTopics: of the repos as rectifyRepoAdminTopics leaves them,
\* those WalkReposByTeam yields for the team (it has a permission on them)
\* and that were changed
changedReposOfTeam(f, teamID, rectified) ==
    SelectSeqIdx([i \in 1..Len(f.repos) |-> rectified[i].repo],
                 {i \in 1..Len(f.repos) :
                    /\ \E p \in f.repos[i].Teams : p.teamID = teamID
                    /\ rectified[i].changed})

\* UpdateTeamAdminTopics after WalkReposByTeam has answered: UpdateRepoTopics
\* for each repo changed; the repos updated are counted
updateTeamAdminTopicsOf(walked, repos, ro, failAt) ==
    IF walked.err THEN walked
    ELSE [updateTopicsLoop(walked, repos, 1, ro, failAt) EXCEPT !.added = Len(repos)]

\* UpdateTeamAdminTopics: WalkReposByTeam with rectifyRepoAdminTopics and
\* UpdateRepoTopics on the repos of the team
UpdateTeamAdminTopicsRun(f, teamID, ro, failAt) ==
    updateTeamAdminTopicsOf(
        issue(StartOfOp(f), RepoCall("WalkReposByTeam", <<>>, teamID, "", <<>>, TRUE, TRUE),
              Reaches(ro, "WalkReposByTeam"), teamID \in TeamIDs(f), failAt, f),
        changedReposOfTeam(f, teamID,
            [i \in 1..Len(f.repos) |-> rectifyRepoAdminTopics(asDomainRepo(f, i))]),
        ro, failAt)

\* A switch that treats every action it does not name as one to ignore: the
\* fault C20 rules out.
dispatchKnowsAll(event) == TRUE

\* The function of orgbot the switch calls for the event ("" for none), and
\* whether the action is one the switch names.
dispatchTarget(event) ==
    IF event.Action \in {"added_to_repository", "removed_from_repository"}
    THEN "UpdateRepoAdminTopics"
    ELSE IF event.Action = "edited"
    THEN IF ~event.RepoNil THEN "UpdateRepoAdminTopics" ELSE "UpdateTeamAdminTopics"
    ELSE ""
dispatchKnows(event) ==
    event.Action \in {"", "added_to_repository", "removed_from_repository", "edited",
                      "created", "deleted"}

\* The call into orgbot the switch makes, as it is logged.
dispatchCall(target, event, ok) ==
    IF target = "UpdateRepoAdminTopics"
    THEN DispatchCall(target, event.Owner, event.RepoName, 0, ok)
    ELSE DispatchCall(target, event.Org, <<>>, event.TeamID, ok)

\* The calls of a function of orgbot behind the logged call that made them.
behindCall(target, event, run) ==
    [run EXCEPT !.cs = <<dispatchCall(target, event, ~run.err)>> \o @]

\* ListenForEvents: the switch on the action of the event
dispatch(f, event, failAt) ==
    IF dispatchTarget(event) = "UpdateRepoAdminTopics"
    THEN behindCall("UpdateRepoAdminTopics", event,
                    UpdateRepoAdminTopicsRun(f, event.RepoName, FALSE, failAt))
    ELSE IF dispatchTarget(event) = "UpdateTeamAdminTopics"
    THEN behindCall("UpdateTeamAdminTopics", event,
                    UpdateTeamAdminTopicsRun(f, event.TeamID, FALSE, failAt))
    ELSE [StartOfOp(f) EXCEPT !.err = ~dispatchKnows(event)]

\* ListenForEvents: the event makes the worker read through a nil Repo
\* (the log line of added_to_repository and removed_from_repository).
panics(event) ==
    event.RepoNil /\ event.Action \in {"added_to_repository", "removed_from_repository"}

\* A worker that deletes the message only when the dispatch returned no
\* error: the fault C19 rules out.
deleteUnlessFailed(cs, handle, err, ok) ==
    IF handle = 0 \/ err THEN cs
    ELSE Append(cs, QueueCall("DeleteMessage", handle, NoMessage, ok))

\* ListenForEvents: queueService.delete after the dispatch, whatever its
\* error; delete makes no call for an empty handle
deleteAfterDispatch(cs, handle, err, ok) ==
    IF handle = 0 THEN cs
    ELSE Append(cs, QueueCall("DeleteMessage", handle, NoMessage, ok))

\* The calls on the GitHubService a dispatch makes at most, with one repo:
\* RepoByName or WalkReposByTeam, then UpdateRepoTopics.
maxDispatchCalls == 2

\* The worker is in its loop, about to call receive.
WorkerState(queue) == [pc |-> "receive", queue |-> queue, inflight |-> FALSE, received |-> 0]

\* receive returns no message: the queue is empty or its first message is in
\* flight. The loop goes on.
ReceiveNothing ==
    /\ st.pc = "receive" /\ st.received < MaxReceives
    /\ st.queue = <<>> \/ st.inflight
    /\ calls' = Append(calls, QueueCall("ReceiveMessage", 0, NoMessage, TRUE))
    /\ st' = [st EXCEPT !.received = @ + 1]
    /\ UNCHANGED <<orgDoc, changes, forge, runs, failures, repoOp>>

\* receive fails (the queue's error, or a body that is no message): the
\* worker hands the error to errChan and returns.
ReceiveFails ==
    /\ st.pc = "receive" /\ st.received < MaxReceives
    /\ \/ /\ failures < MaxFailures
          /\ failures' = failures + 1
          /\ st' = [st EXCEPT !.pc = "stopped", !.received = @ + 1]
       \/ /\ st.queue # <<>> /\ ~st.inflight /\ ~Head(st.queue).bodyOK
          /\ failures' = failures
          /\ st' = [st EXCEPT !.pc = "stopped", !.received = @ + 1, !.inflight = TRUE]
    /\ calls' = Append(calls, QueueCall("ReceiveMessage", 0, NoMessage, FALSE))
    /\ UNCHANGED <<orgDoc, changes, forge, runs, repoOp>>

\* receive returns the first message of the queue, with a fresh receipt handle.
receives ==
    /\ st.pc = "receive" /\ st.received < MaxReceives
    /\ st.queue # <<>> /\ ~st.inflight /\ Head(st.queue).bodyOK
receivedHandle == st.received + 1
callsWithReceive ==
    Append(calls, QueueCall("ReceiveMessage", receivedHandle, Head(st.queue), TRUE))

\* The payload of the message received is no event: the loop goes on with
\* the next receive.
ReceiveUnparsable ==
    /\ receives /\ ~Head(st.queue).payloadOK
    /\ calls' = callsWithReceive
    /\ st' = [st EXCEPT !.received = receivedHandle, !.inflight = TRUE]
    /\ UNCHANGED <<orgDoc, changes, forge, runs, failures, repoOp>>

\* The event is about a fork: the message is deleted and the loop goes on.
SkipFork ==
    /\ receives /\ Head(st.queue).payloadOK
    /\ ~Head(st.queue).event.RepoNil /\ Head(st.queue).event.Fork
    /\ \E ok \in BOOLEAN :
        /\ calls' = deleteAfterDispatch(callsWithReceive, receivedHandle, FALSE, ok)
        /\ st' = [st EXCEPT !.received = receivedHandle, !.inflight = ~ok,
                            !.queue = IF ok THEN Tail(@) ELSE @]
    /\ runs' = Append(runs, [handle |-> receivedHandle, outcome |-> "fork"])
    /\ UNCHANGED <<orgDoc, changes, forge, failures, repoOp>>

\* The event names a repository action and carries no repository: the worker
\* reads through the nil Repo and the program ends.
PanicOnNilRepo ==
    /\ receives /\ Head(st.queue).payloadOK
    /\ panics(Head(st.queue).event)
    /\ calls' = callsWithReceive
    /\ st' = [st EXCEPT !.pc = "panicked", !.received = receivedHandle, !.inflight = TRUE]
    /\ UNCHANGED <<orgDoc, changes, forge, runs, failures, repoOp>>

\* One turn of the loop for an event that is dispatched: the switch on its
\* action, then the delete of the message, whatever the switch returned.
DispatchMessage ==
    /\ receives /\ Head(st.queue).payloadOK
    /\ Head(st.queue).event.RepoNil \/ ~Head(st.queue).event.Fork
    /\ ~panics(Head(st.queue).event)
    /\ \E ok \in BOOLEAN : \E failAt \in FailAtChoices(maxDispatchCalls) :
       \E d \in {dispatch(forge, Head(st.queue).event, failAt)} :
        /\ calls' = deleteAfterDispatch(callsWithReceive \o d.cs, receivedHandle, d.err, ok)
        /\ forge' = d.f
        /\ failures' = Bump(d.injected)
        /\ st' = [st EXCEPT !.received = receivedHandle, !.inflight = ~ok,
                            !.queue = IF ok THEN Tail(@) ELSE @]
        /\ runs' = Append(runs, [handle |-> receivedHandle,
                                 outcome |-> IF d.err THEN "error" ELSE "done"])
    /\ UNCHANGED <<orgDoc, changes, repoOp>>

\* The visibility timeout of the message in flight runs out: the queue
\* returns it again.
VisibilityTimeout ==
    /\ st.pc = "receive" /\ st.inflight
    /\ st' = [st EXCEPT !.inflight = FALSE]
    /\ UNCHANGED <<orgDoc, changes, forge, calls, runs, failures, repoOp>>

\* The actions an event may carry: the five of a team event, none, and one
\* the worker does not know.
EventActions ==
    {"", "added_to_repository", "removed_from_repository", "edited", "created", "deleted",
     "renamed"}

\* The messages on the queue: team events with and without a repo, of forks,
\* a payload that is no event, and a body that is no message.
Messages(deliveryID) ==
    {Message(deliveryID, TRUE, TRUE, TeamEvent(a, TRUE, FALSE)) : a \in EventActions}
        \cup {Message(deliveryID, TRUE, TRUE, TeamEvent(a, FALSE, fk)) :
                a \in EventActions, fk \in BOOLEAN}
        \cup {Message(deliveryID, TRUE, FALSE, TeamEvent("", TRUE, FALSE)),
              Message(deliveryID, FALSE, FALSE, TeamEvent("", TRUE, FALSE))}

\* One or two messages on the queue, and a forge whose repo r has the admin
\* topic of its admin team or lacks it.
InitWorker ==
    /\ \E m1 \in Messages(1) : \E more \in {<<>>} \cup {<<m2>> : m2 \in Messages(2)} :
            st = WorkerState(<<m1>> \o more)
    /\ \E topics \in {<<>>, << adminTopicPrefix \o <<"a">> >>} :
            forge = ForgeOf(<<GitHubTeam(1, 0, <<"a">>, "d")>>, {}, {}, Emails,
                            <<[Name |-> <<"r">>, Topics |-> topics,
                               Teams |-> {[teamID |-> 1, permission |-> RepoPermissionAdmin]}]>>)
    /\ orgDoc = EmptyOrg
    /\ changes = NoChanges
    /\ calls = <<>>
    /\ runs = <<>>
    /\ failures = 0
    /\ repoOp = NoRepoOp

NextWorker ==
    \/ ReceiveNothing
    \/ ReceiveFails
    \/ ReceiveUnparsable
    \/ SkipFork
    \/ PanicOnNilRepo
    \/ DispatchMessage
    \/ VisibilityTimeout

SpecWorker == InitWorker /\ [][NextWorker]_vars

-----------------------------------------------------------------------------
(* MergeOrg and UnmergeOrg: merge_org.go against a directory tree. A        *)
(* directory is its path below the directory handed to UnmergeOrg (a list   *)
(* of file names); it holds one control file with the document written.     *)

MaxMergeTeams == 3

orgFile == "org.yaml"
teamFile == "team.yaml"

\* filepath.Join(dir, name): an empty name adds nothing to the path.
filepath_Join(dir, name) == IF name = <<>> THEN dir ELSE Append(dir, name)

\* The directory exists: the target directory does, and what was made in it.
DirExists(fs, path) == path = <<>> \/ \E e \in fs : e.path = path

\* sort.Strings on a list of emails, which the model orders as EmailList.
EmailLess(a, b) ==
    (CHOOSE k \in 1..Len(EmailList) : EmailList[k] = a)
        < (CHOOSE k \in 1..Len(EmailList) : EmailList[k] = b)

RECURSIVE InsertEmail(_, _)
InsertEmail(s, x) ==
    IF s = <<>> \/ ~EmailLess(x, s[Len(s)]) THEN Append(s, x)
    ELSE Append(InsertEmail(SubSeq(s, 1, Len(s) - 1), x), s[Len(s)])

RECURSIVE sort_Strings(_)
sort_Strings(s) ==
    IF s = <<>> THEN <<>>
    ELSE InsertEmail(sort_Strings(SubSeq(s, 1, Len(s) - 1)), s[Len(s)])

\* sort.Slice by Name over team indices (insertion sort, as Go sorts a slice
\* of fewer than 12 elements).
RECURSIVE InsertByName(_, _, _)
InsertByName(teams, s, i) ==
    IF s = <<>> \/ ~StrLess(teams[i].Name, teams[s[Len(s)]].Name) THEN Append(s, i)
    ELSE Append(InsertByName(teams, SubSeq(s, 1, Len(s) - 1), i), s[Len(s)])

RECURSIVE sortByName(_, _)
sortByName(teams, s) ==
    IF s = <<>> THEN <<>>
    ELSE InsertByName(teams, sortByName(teams, SubSeq(s, 1, Len(s) - 1)), s[Len(s)])

\* The children of team p in the order the tree lists them (p = 0: the
\* top-level teams).
ChildrenOf(teams, p) == SelectSeqIdx([i \in 1..Len(teams) |-> i],
                                     {i \in 1..Len(teams) : teams[i].parent = p})

\* SortTeam over the teams listed in order under the new parent index; acc is
\* the sorted tree built so far, in pre-order.
RECURSIVE SortTeams(_, _, _, _, _)
SortTeams(teams, order, k, newParent, acc) ==
    IF k > Len(order) THEN acc
    ELSE LET t == teams[order[k]]
             sorted == [t EXCEPT !.Maintainers = sort_Strings(@),
                                 !.Members = sort_Strings(@),
                                 !.parent = newParent]
             below == SortTeams(teams, sortByName(teams, ChildrenOf(teams, order[k])), 1,
                                Len(acc) + 1, Append(acc, sorted))
         IN  SortTeams(teams, order, k + 1, newParent, below)

SortOrg(org) ==
    [org EXCEPT !.Teams = SortTeams(org.Teams, sortByName(org.Teams, ChildrenOf(org.Teams, 0)),
                                    1, 0, <<>>)]

\* What the codec writes of a team: every field but Maintainers (yaml:"-")
\* and Children (cleared by writeTeam).
writeTeam(t) ==
    [Name |-> t.Name, Description |-> t.Description, Previously |-> t.Previously,
     Members |-> t.Members, RestrictMembers |-> t.RestrictMembers]

\* What the codec writes of an org: its name (Teams cleared by writeOrg).
writeOrg(org) == [Name |-> org.Name]

\* The directory of team i: its normalised name below its parent's directory.
RECURSIVE teamDir(_, _, _)
teamDir(orgDir, teams, i) ==
    filepath_Join(IF teams[i].parent = 0 THEN orgDir
                  ELSE teamDir(orgDir, teams, teams[i].parent),
                  normaliseName(teams[i].Name))

\* descend of UnmergeOrg from team i on, in pre-order: os.Mkdir fails on a
\* path that exists, and the error is returned with what was written left.
RECURSIVE unmergeDescend(_, _, _, _)
unmergeDescend(fs, orgDir, teams, i) ==
    IF i > Len(teams) THEN [fs |-> fs, err |-> ""]
    ELSE IF DirExists(fs, teamDir(orgDir, teams, i)) THEN [fs |-> fs, err |-> "mkdir"]
    ELSE unmergeDescend(fs \cup {[path |-> teamDir(orgDir, teams, i), file |-> teamFile,
                                  doc |-> writeTeam(teams[i])]},
                        orgDir, teams, i + 1)

\* UnmergeOrg(codec, org, dir) into an empty directory.
UnmergeOrgRun(org) ==
    LET orgDir == filepath_Join(<<>>, normaliseName(org.Name))
    IN  IF DirExists({}, orgDir) THEN [fs |-> {}, err |-> "mkdir", orgDir |-> orgDir]
        ELSE [orgDir |-> orgDir] @@
             unmergeDescend({[path |-> orgDir, file |-> orgFile, doc |-> writeOrg(org)]},
                            orgDir, org.Teams, 1)

\* ioutil.ReadDir: the names of the subdirectories of dir, sorted by filename.
subDirs(fs, dir) ==
    SortStrings({e.path[Len(e.path)] : e \in {x \in fs : /\ Len(x.path) = Len(dir) + 1
                                                         /\ SubSeq(x.path, 1, Len(dir)) = dir}})

\* A team as the codec decodes it: Maintainers stays nil.
readTeam(doc, parent) ==
    Team(doc.Name, doc.Description, doc.Previously, <<>>, doc.Members,
         doc.RestrictMembers, parent)

\* descend of MergeOrg over the subdirectories names[k..] of dir; acc holds
\* the teams read so far in pre-order and the error met.
RECURSIVE mergeDescend(_, _, _, _, _, _)
mergeDescend(fs, dir, names, k, parent, acc) ==
    IF acc.err # "" \/ k > Len(names) THEN acc
    ELSE LET e == CHOOSE x \in fs : x.path = Append(dir, names[k])
         IN  IF e.file # teamFile THEN [acc EXCEPT !.err = "MissingControlFileError"]
             ELSE IF names[k] # normaliseName(e.doc.Name)
             THEN [acc EXCEPT !.err = "InvalidTeamDirNameError"]
             ELSE mergeDescend(fs, dir, names, k + 1, parent,
                    mergeDescend(fs, e.path, subDirs(fs, e.path), 1, Len(acc.teams) + 1,
                                 [acc EXCEPT !.teams = Append(@, readTeam(e.doc, parent))]))

\* MergeOrg(codec, dir)
MergeOrgRun(fs, dir) ==
    IF ~\E e \in fs : e.path = dir /\ e.file = orgFile
    THEN [org |-> EmptyOrg, err |-> "MissingControlFileError"]
    ELSE LET read == CHOOSE e \in fs : e.path = dir /\ e.file = orgFile
             got == mergeDescend(fs, dir, subDirs(fs, dir), 1, 0, [teams |-> <<>>, err |-> ""])
         IN  IF got.err # "" THEN [org |-> EmptyOrg, err |-> got.err]
             ELSE [org |-> [Name |-> read.doc.Name, Teams |-> got.teams], err |-> ""]

\* UnmergeOrg writes the org document below an empty directory.
UnmergeOrg ==
    /\ st.pc = "unmerge"
    /\ st' = [pc |-> "merge", org |-> EmptyOrg, mergeErr |-> ""] @@ UnmergeOrgRun(orgDoc)
    /\ UNCHANGED <<orgDoc, changes, forge, calls, runs, failures, repoOp>>

\* MergeOrg reads the org directory that UnmergeOrg named.
MergeOrg ==
    /\ st.pc = "merge"
    /\ \E got \in {MergeOrgRun(st.fs, st.orgDir)} :
        st' = [st EXCEPT !.pc = "done", !.org = got.org, !.mergeErr = got.err]
    /\ UNCHANGED <<orgDoc, changes, forge, calls, runs, failures, repoOp>>

\* Names that sort differently from their directories ("B" before "a", "b"
\* after "a"), that share a directory ("B", "b") and that have none ("!").
MergeNames == {<<"a">>, <<"B">>, <<"b">>, <<"!">>}
MergeOrgNames == {<<"O">>, <<"!">>}
MergeMembers == {<<>>, <<"u1", "u2">>, <<"u2", "u1">>}

\* Team trees of n teams in pre-order; trees of more than two teams vary in
\* their names and shape only.
MergeTeamLists(n) ==
    {ts \in [1..n -> [Name : MergeNames, Description : {"d"},
                      Previously : {<<>>, << <<"b">> >>},
                      Maintainers : {<<>>, <<"u1">>},
                      Members : IF n > 2 THEN {<<>>} ELSE MergeMembers,
                      RestrictMembers : IF n > 1 THEN {<<>>} ELSE {<<>>, <<".*">>},
                      parent : 0..n]] :
        \A i \in 1..n :
            /\ ts[i].parent < i
            /\ ts[i].parent # 0 => ts[i].parent \in {i - 1} \cup Range(Ancestors(ts, i - 1))
            /\ n > 2 => ts[i].Previously = <<>> /\ ts[i].Maintainers = <<>>}

InitMerge ==
    /\ orgDoc \in {[Name |-> name, Teams |-> ts] :
                    name \in MergeOrgNames,
                    ts \in UNION {MergeTeamLists(n) : n \in 0..MaxMergeTeams}}
    /\ st = [pc |-> "unmerge"]
    /\ forge = EmptyForge
    /\ changes = NoChanges
    /\ calls = <<>>
    /\ runs = <<>>
    /\ failures = 0
    /\ repoOp = NoRepoOp

NextMerge == UnmergeOrg \/ MergeOrg

SpecMerge == InitMerge /\ [][NextMerge]_vars

-----------------------------------------------------------------------------
(* normaliseName on its own: every name of up to MaxNameChars characters    *)
(* over letters of both cases, a digit, the separators and a character that *)
(* is dropped.                                                              *)

MaxNameChars == 5

NameChars == {"a", "B", "0", " ", "_", "-", "!"}

NameStrings == UNION {[1..n -> NameChars] : n \in 0..MaxNameChars}

InitNormalise ==
    /\ st \in {[pc |-> "name", name |-> name, out |-> <<>>, again |-> <<>>] :
                name \in NameStrings}
    /\ orgDoc = EmptyOrg
    /\ forge = EmptyForge
    /\ changes = NoChanges
    /\ calls = <<>>
    /\ runs = <<>>
    /\ failures = 0
    /\ repoOp = NoRepoOp

\* normaliseName(name)
NormaliseName ==
    /\ st.pc = "name"
    /\ st' = [st EXCEPT !.pc = "normalised", !.out = normaliseName(st.name)]
    /\ UNCHANGED <<orgDoc, changes, forge, calls, runs, failures, repoOp>>

\* normaliseName of what normaliseName returned
NormaliseAgain ==
    /\ st.pc = "normalised"
    /\ st' = [st EXCEPT !.pc = "again", !.again = normaliseName(st.out)]
    /\ UNCHANGED <<orgDoc, changes, forge, calls, runs, failures, repoOp>>

NextNormalise == NormaliseName \/ NormaliseAgain

SpecNormalise == InitNormalise /\ [][NextNormalise]_vars

-----------------------------------------------------------------------------
(* promoteAdmins on its own: team trees of up to MaxPromoteTeams teams with *)
(* maintainers and members, against any set of org admins.                  *)

MaxPromoteTeams == 3

PromoteEmails == {"u1", "u2", "u3"}

\* The lists of a team: no email is listed twice (usersUniqueWithinTeamRule).
PromoteLists ==
    {[Maintainers |-> <<>>, Members |-> <<>>],
     [Maintainers |-> <<>>, Members |-> <<"u1", "u2", "u3">>],
     [Maintainers |-> <<>>, Members |-> <<"u3", "u1", "u2">>],
     [Maintainers |-> <<"u2">>, Members |-> <<"u3", "u1">>],
     [Maintainers |-> <<"u1">>, Members |-> <<"u2">>]}

PromoteTeamLists(n) ==
    {ts \in [1..n -> [Name : {<<"a">>}, Description : {"d"}, Previously : {<<>>},
                      Maintainers : {ml.Maintainers : ml \in PromoteLists},
                      Members : {ml.Members : ml \in PromoteLists},
                      RestrictMembers : {<<>>}, parent : 0..n]] :
        \A i \in 1..n :
            /\ ts[i].parent < i
            /\ ts[i].parent # 0 => ts[i].parent \in {i - 1} \cup Range(Ancestors(ts, i - 1))
            /\ [Maintainers |-> ts[i].Maintainers, Members |-> ts[i].Members]
                    \in PromoteLists}

InitPromote ==
    /\ orgDoc \in {[Name |-> supportedOrgName, Teams |-> ts] :
                    ts \in UNION {PromoteTeamLists(n) : n \in 1..MaxPromoteTeams}}
    /\ forge \in {ForgeOf(<<>>, {}, admins, PromoteEmails, <<>>) :
                    admins \in SUBSET PromoteEmails}
    /\ st = [pc |-> "promote", org |-> orgDoc, err |-> FALSE]
    /\ changes = NoChanges
    /\ calls = <<>>
    /\ runs = <<>>
    /\ failures = 0
    /\ repoOp = NoRepoOp

\* promoteAdmins(ctx, gitHubService, org): a failing ListAdmins is returned
\* with the org untouched.
PromoteAdmins ==
    /\ st.pc = "promote"
    /\ \E fail \in BOOLEAN :
        st' = [pc |-> "done",
               org |-> IF fail THEN st.org ELSE promoteAdminsOrg(st.org, SvcListAdmins(forge)),
               err |-> fail]
    /\ UNCHANGED <<orgDoc, changes, forge, calls, runs, failures, repoOp>>

NextPromote == PromoteAdmins

SpecPromote == InitPromote /\ [][NextPromote]_vars

-----------------------------------------------------------------------------
(* The rules that read the team names alone, each on its own:             *)
(* teamNamesUniqueRule and teamNameLengthRule, and the admin topic that   *)
(* rectifyRepoAdminTopics derives for a team of an accepted name.         *)

MaxRuleTeams == 4

\* Team trees of n teams in pre-order, named from the given names.
NamedTeamLists(n, names) ==
    {[i \in 1..n |-> Team(f[i].Name, "d", <<>>, <<>>, <<>>, <<>>, f[i].parent)] :
        f \in {g \in [1..n -> [Name : names, parent : 0..(MaxRuleTeams - 1)]] :
                \A i \in 1..n :
                    /\ g[i].parent < i
                    /\ g[i].parent # 0 =>
                            g[i].parent \in {i - 1} \cup Range(Ancestors(g, i - 1))}}

\* A name of n characters.
NameOfLength(n) == [i \in 1..n |-> "t"]

\* Names around the limits: those whose admin topic is one short of
\* maxTopicLength, as long as it and longer, those as long as
\* maxTeamNameLength and one longer, and one of maxTeamNameLength characters
\* that normalises to a short name.
LongNames ==
    {NameOfLength(n) : n \in {1, maxTopicLength - Len(adminTopicPrefix) - 1,
                              maxTopicLength - Len(adminTopicPrefix),
                              maxTopicLength - Len(adminTopicPrefix) + 1,
                              maxTeamNameLength - 1, maxTeamNameLength,
                              maxTeamNameLength + 1}}
        \cup {NameOfLength(20) \o [i \in 1..(maxTeamNameLength - 20) |-> " "]}

InitNameRules ==
    /\ orgDoc \in {[Name |-> supportedOrgName, Teams |-> ts] :
                    ts \in UNION {NamedTeamLists(n, {<<"a">>, <<"b">>, <<"c">>}) :
                                    n \in 0..MaxRuleTeams}
                           \cup UNION {NamedTeamLists(n, LongNames) : n \in 1..2}}
    /\ st = [pc |-> "Run", rule |-> "", out |-> "none", violations |-> <<>>,
             topics |-> <<>>]
    /\ forge = EmptyForge
    /\ changes = NoChanges
    /\ calls = <<>>
    /\ runs = <<>>
    /\ failures = 0
    /\ repoOp = NoRepoOp

\* teamNamesUniqueRule.Run on the org
RunTeamNamesUniqueRule ==
    /\ st.pc = "Run"
    /\ \E v \in {teamNamesUniqueViolations(orgDoc)} :
        st' = [st EXCEPT !.pc = "done", !.rule = "teamNamesUnique",
                         !.out = RuleResult(v # <<>>), !.violations = v]
    /\ UNCHANGED <<orgDoc, changes, forge, calls, runs, failures, repoOp>>

\* teamNameLengthRule.Run on the org, with the limit NewRuleEngine gives it
RunTeamNameLengthRule ==
    /\ st.pc = "Run"
    /\ \E v \in {teamNameLengthViolations(orgDoc, maxTeamNameLength)} :
        st' = [st EXCEPT !.pc = "done", !.rule = "teamNameLength",
                         !.out = RuleResult(v # <<>>), !.violations = v]
    /\ UNCHANGED <<orgDoc, changes, forge, calls, runs, failures, repoOp>>

\* rectifyRepoAdminTopics: the admin topic derived for each team of the org
\* the length rule accepted, were the team an admin of a repository.
DeriveAdminTopics ==
    /\ st.pc = "done"
    /\ st.rule = "teamNameLength"
    /\ st.out = "nil"
    /\ st' = [st EXCEPT !.pc = "topics",
                        !.topics = [i \in 1..Len(orgDoc.Teams) |->
                                        adminTopicOf(orgDoc.Teams[i].Name)]]
    /\ UNCHANGED <<orgDoc, changes, forge, calls, runs, failures, repoOp>>

NextNameRules == RunTeamNamesUniqueRule \/ RunTeamNameLengthRule \/ DeriveAdminTopics

SpecNameRules == InitNameRules /\ [][NextNameRules]_vars

-----------------------------------------------------------------------------
(* The three admin-topic operations side by side: UpdateAdminTopics,       *)
(* UpdateRepoAdminTopics for a repository and UpdateTeamAdminTopics for a  *)
(* team, on the repositories and teams of InitTopics.                      *)

\* UpdateRepoAdminTopics as a whole, for a repository of the forge
UpdateRepoAdminTopics(repoName, ro) ==
    /\ st.pc = "idle"
    /\ Len(runs) + repoOp.n < MaxRuns
    /\ \E failAt \in FailAtChoices(maxDispatchCalls) :
       \E r \in {UpdateRepoAdminTopicsRun(forge, repoName, ro, failAt)} :
            /\ forge' = r.f
            /\ calls' = r.cs
            /\ failures' = Bump(r.injected)
            /\ repoOp' = [op |-> "UpdateRepoAdminTopics", readOnly |-> ro, err |-> r.err,
                          result |-> IF r.err THEN <<>> ELSE [ReposUpdated |-> r.added],
                          n |-> repoOp.n + 1, follows |-> ranOnForge(repoOp)]
    /\ UNCHANGED <<orgDoc, changes, st, runs>>

\* UpdateTeamAdminTopics as a whole, for a team of the forge
UpdateTeamAdminTopics(teamID, ro) ==
    /\ st.pc = "idle"
    /\ Len(runs) + repoOp.n < MaxRuns
    /\ \E failAt \in FailAtChoices(1 + Len(forge.repos)) :
       \E r \in {UpdateTeamAdminTopicsRun(forge, teamID, ro, failAt)} :
            /\ forge' = r.f
            /\ calls' = r.cs
            /\ failures' = Bump(r.injected)
            /\ repoOp' = [op |-> "UpdateTeamAdminTopics", readOnly |-> ro, err |-> r.err,
                          result |-> IF r.err THEN <<>> ELSE [ReposUpdated |-> r.added],
                          n |-> repoOp.n + 1, follows |-> ranOnForge(repoOp)]
    /\ UNCHANGED <<orgDoc, changes, st, runs>>

NextAdminTopics ==
    \/ \E ro \in BOOLEAN : UpdateAdminTopics(ro)
    \/ \E ro \in BOOLEAN : \E i \in 1..Len(forge.repos) :
            UpdateRepoAdminTopics(forge.repos[i].Name, ro)
    \/ \E ro \in BOOLEAN : \E id \in TeamIDs(forge) : UpdateTeamAdminTopics(id, ro)

\* The forges of InitTopics on which no repository has the team of the long
\* name, which the three operations treat alike.
InitAdminTopics ==
    /\ InitTopics
    /\ \A i \in 1..Len(forge.repos) : \A p \in forge.repos[i].Teams : p.teamID # 4

SpecAdminTopics == InitAdminTopics /\ [][NextAdminTopics]_vars

-----------------------------------------------------------------------------
(* The webhook handler in front of the worker: eventHandler.Handle submits *)
(* each delivery to the FIFO queue, which drops a message whose            *)
(* deduplication id it has accepted before, and ListenForEvents takes the  *)
(* messages off the queue.                                                 *)

MaxDeliveries == 3

\* config.Name, the name of the process: the group of every message.
configName == "orgbot"

\* queueService.submit: the SendMessageInput for the message
SendMessageInput(m) ==
    [MessageBody |-> m, MessageDeduplicationId |-> m.DeliveryID, MessageGroupId |-> configName]

\* A queue that takes every message, whatever its deduplication id: the
\* fault C38 rules out.
DeduplicatedNever(sent, id) == FALSE

\* The queue has accepted a message with the deduplication id before.
Deduplicated(sent, id) ==
    \E k \in 1..Len(sent) : sent[k].ok /\ sent[k].input.MessageDeduplicationId = id

\* eventHandler.Handle for a delivery of the forge: a payload that is no team
\* event is refused; any other is wrapped in a message and submitted. The
\* queue appends the message unless SendMessage fails or it has accepted the
\* deduplication id before.
Handle(deliveryID, payloadOK, event) ==
    /\ st.pc = "receive"
    /\ st.handled < MaxDeliveries
    /\ \/ /\ ~payloadOK
          /\ st' = [st EXCEPT !.handled = @ + 1]
          /\ failures' = failures
       \/ /\ payloadOK
          /\ \E fail \in FailChoices(TRUE) :
             \E input \in {SendMessageInput(Message(deliveryID, TRUE, TRUE, event))} :
                /\ st' = [st EXCEPT
                            !.handled = @ + 1,
                            !.sent = Append(@, [input |-> input, ok |-> ~fail]),
                            !.queue = IF fail \/ Deduplicated(st.sent, deliveryID)
                                      THEN @ ELSE Append(@, input.MessageBody)]
                /\ failures' = Bump(fail)
    /\ UNCHANGED <<orgDoc, changes, forge, calls, runs, repoOp>>

\* The events the forge delivers: a team added to a repository, a team
\* edited, a team created, and an event about a fork.
IngressEvents ==
    {TeamEvent("added_to_repository", FALSE, FALSE), TeamEvent("edited", TRUE, FALSE),
     TeamEvent("created", TRUE, FALSE), TeamEvent("edited", FALSE, TRUE)}

InitIngress ==
    /\ st = [pc |-> "receive", queue |-> <<>>, inflight |-> FALSE, received |-> 0,
             sent |-> <<>>, handled |-> 0]
    /\ \E topics \in {<<>>, << adminTopicPrefix \o <<"a">> >>} :
            forge = ForgeOf(<<GitHubTeam(1, 0, <<"a">>, "d")>>, {}, {}, Emails,
                            <<[Name |-> <<"r">>, Topics |-> topics,
                               Teams |-> {[teamID |-> 1, permission |-> RepoPermissionAdmin]}]>>)
    /\ orgDoc = EmptyOrg
    /\ changes = NoChanges
    /\ calls = <<>>
    /\ runs = <<>>
    /\ failures = 0
    /\ repoOp = NoRepoOp

NextIngress ==
    \/ \E id \in 1..2 : \E payloadOK \in BOOLEAN : \E event \in IngressEvents :
            Handle(id, payloadOK, event)
    \/ ReceiveNothing
    \/ ReceiveFails
    \/ SkipFork
    \/ DispatchMessage
    \/ VisibilityTimeout

SpecIngress == InitIngress /\ [][NextIngress]_vars

-----------------------------------------------------------------------------
(* service.userFromCacheOrUpdate under concurrent UserByEmail and          *)
(* UserByLogin lookups: the mutex, the cache of the org's users and its    *)
(* time, the clock, and the audit document in the object store.            *)

MaxLookups == 3     \* lookups started in one behaviour
MaxTime    == 2     \* the clock, in minutes
Goroutines == {1, 2}

\* userCacheTTL, in minutes
userCacheTTL == 2

\* userInfo entries of the audit document: a user on-boarded through SCIM,
\* one through SAML whose SCIM field is no email, one without a GitHub
\* login, and one without an email.
UserInfo(login, saml, scim) == [GitHubUser |-> login, SAMLUser |-> saml, SCIMUser |-> scim]

AuditDocs ==
    { << UserInfo(<<"l">>, <<>>, <<"u", "@">>) >>,
      << UserInfo(<<"l">>, <<>>, <<"u", "@">>), UserInfo(<<"m">>, <<"v", "@">>, <<"x">>) >>,
      << UserInfo(<<>>, <<>>, <<"w", "@">>), UserInfo(<<"n">>, <<>>, <<>>),
         UserInfo(<<"m">>, <<"v", "@">>, <<"x">>) >> }

\* The object in the store: the JSON of an audit document, or text that is
\* no JSON.
NoJSON == [json |-> FALSE, auditUsers |-> <<>>]
StoredObjects == {[json |-> TRUE, auditUsers |-> doc] : doc \in AuditDocs} \cup {NoJSON}

\* The logins and emails looked up.
LookupIDs == {<<"l">>, <<"v", "@">>}

NoUser == [Login |-> <<>>, Email |-> <<>>]
NoUsers == [k \in {} |-> NoUser]

\* users[id]: nil for a key the map does not hold
userOf(users, id) == IF id \in DOMAIN users THEN users[id] ELSE NoUser

\* isEmail
isEmail(v) == \E i \in 1..Len(v) : v[i] = "@"

\* The body of the loop that builds the cache, for one userInfo
withUserInfo(users, u) ==
    IF u.GitHubUser = <<>> THEN users
    ELSE IF ~isEmail(u.SCIMUser) /\ ~isEmail(u.SAMLUser) THEN users
    ELSE LET email == IF isEmail(u.SCIMUser) THEN u.SCIMUser ELSE u.SAMLUser
             user == [Login |-> u.GitHubUser, Email |-> email]
         IN  [k \in DOMAIN users \cup {user.Login, user.Email} |->
                IF k \in {user.Login, user.Email} THEN user ELSE users[k]]

\* A mutex that lets everyone in: the fault C39 rules out.
mutexFreeAlways(mu) == TRUE

\* sync.Mutex: Lock returns when no goroutine holds the mutex
mutexFree(mu) == mu = 0

IdleLookup ==
    [pc |-> "idle", orgName |-> "", id |-> <<>>, buf |-> NoJSON, k |-> 0, users |-> NoUsers,
     result |-> NoUser, err |-> FALSE, seen |-> <<>>]

\* UserByEmail or UserByLogin is called on goroutine p.
CallLookup(p, orgName, id) ==
    /\ st.procs[p].pc = "idle"
    /\ st.started < MaxLookups
    /\ st' = [st EXCEPT !.started = @ + 1,
                        !.procs[p] = [IdleLookup EXCEPT !.pc = "lock", !.orgName = orgName,
                                                        !.id = id]]
    /\ UNCHANGED <<orgDoc, changes, forge, calls, runs, failures, repoOp>>

\* s.userCacheMu.Lock()
Lock(p) ==
    /\ st.procs[p].pc = "lock"
    /\ mutexFree(st.userCacheMu)
    /\ st' = [st EXCEPT !.userCacheMu = p,
                        !.procs[p].pc = "check",
                        !.procs[p].seen = <<st.userCache, st.userCacheTime>>]
    /\ UNCHANGED <<orgDoc, changes, forge, calls, runs, failures, repoOp>>

\* if orgName != supportedOrgName: the error
UnsupportedOrg(p) ==
    /\ st.procs[p].pc = "check"
    /\ st.procs[p].orgName # supportedOrgName
    /\ st' = [st EXCEPT !.procs[p].pc = "unlock", !.procs[p].err = TRUE]
    /\ UNCHANGED <<orgDoc, changes, forge, calls, runs, failures, repoOp>>

\* The cached users of the org, read within the TTL
cacheFresh(s) == s.userCache.ok /\ s.userCacheTime + userCacheTTL > s.now

CacheHit(p) ==
    /\ st.procs[p].pc = "check"
    /\ st.procs[p].orgName = supportedOrgName
    /\ cacheFresh(st)
    /\ st' = [st EXCEPT !.procs[p].pc = "unlock",
                        !.procs[p].result = userOf(st.userCache.users, st.procs[p].id)]
    /\ UNCHANGED <<orgDoc, changes, forge, calls, runs, failures, repoOp>>

CacheMiss(p) ==
    /\ st.procs[p].pc = "check"
    /\ st.procs[p].orgName = supportedOrgName
    /\ ~cacheFresh(st)
    /\ st' = [st EXCEPT !.procs[p].pc = "fetch"]
    /\ UNCHANGED <<orgDoc, changes, forge, calls, runs, failures, repoOp>>

\* s3Client.GetObjectAsString, as it is logged
GetObjectCall(p, ok) == [op |-> "GetObjectAsString", p |-> p, ok |-> ok]

\* GetObjectAsString returns an error: so does the lookup.
GetObjectFails(p) ==
    /\ st.procs[p].pc = "fetch"
    /\ failures < MaxFailures
    /\ failures' = failures + 1
    /\ calls' = Append(calls, GetObjectCall(p, FALSE))
    /\ st' = [st EXCEPT !.procs[p].pc = "unlock", !.procs[p].err = TRUE]
    /\ UNCHANGED <<orgDoc, changes, forge, runs, repoOp>>

\* GetObjectAsString returns the object of the store.
GetObject(p) ==
    /\ st.procs[p].pc = "fetch"
    /\ calls' = Append(calls, GetObjectCall(p, TRUE))
    /\ st' = [st EXCEPT !.procs[p].pc = "unmarshal", !.procs[p].buf = st.store]
    /\ UNCHANGED <<orgDoc, changes, forge, runs, failures, repoOp>>

\* json.Unmarshal fails on the object: so does the lookup.
UnmarshalFails(p) ==
    /\ st.procs[p].pc = "unmarshal"
    /\ ~st.procs[p].buf.json
    /\ st' = [st EXCEPT !.procs[p].pc = "unlock", !.procs[p].err = TRUE]
    /\ UNCHANGED <<orgDoc, changes, forge, calls, runs, failures, repoOp>>

\* json.Unmarshal into auditUsers, and the empty map to build
Unmarshal(p) ==
    /\ st.procs[p].pc = "unmarshal"
    /\ st.procs[p].buf.json
    /\ st' = [st EXCEPT !.procs[p].pc = "build", !.procs[p].k = 1,
                        !.procs[p].users = NoUsers]
    /\ UNCHANGED <<orgDoc, changes, forge, calls, runs, failures, repoOp>>

\* One turn of the loop over auditUsers
BuildEntry(p) ==
    /\ st.procs[p].pc = "build"
    /\ st.procs[p].k <= Len(st.procs[p].buf.auditUsers)
    /\ st' = [st EXCEPT !.procs[p].k = @ + 1,
                        !.procs[p].users =
                            withUserInfo(@, st.procs[p].buf.auditUsers[st.procs[p].k])]
    /\ UNCHANGED <<orgDoc, changes, forge, calls, runs, failures, repoOp>>

\* s.userCache[orgName] = users; s.userCacheTime = time.Now()
Publish(p) ==
    /\ st.procs[p].pc = "build"
    /\ st.procs[p].k > Len(st.procs[p].buf.auditUsers)
    /\ st' = [st EXCEPT !.userCache = [ok |-> TRUE, users |-> st.procs[p].users],
                        !.userCacheTime = st.now,
                        !.procs[p].pc = "unlock",
                        !.procs[p].result = userOf(st.procs[p].users, st.procs[p].id)]
    /\ UNCHANGED <<orgDoc, changes, forge, calls, runs, failures, repoOp>>

\* The deferred s.userCacheMu.Unlock() and the return of the lookup
Unlock(p) ==
    /\ st.procs[p].pc = "unlock"
    /\ st' = [st EXCEPT !.userCacheMu = 0, !.procs[p].pc = "idle"]
    /\ runs' = Append(runs, [p |-> p, err |-> st.procs[p].err,
                             result |-> st.procs[p].result])
    /\ UNCHANGED <<orgDoc, changes, forge, calls, failures, repoOp>>

\* A minute passes.
Tick ==
    /\ st.now < MaxTime
    /\ st' = [st EXCEPT !.now = @ + 1]
    /\ UNCHANGED <<orgDoc, changes, forge, calls, runs, failures, repoOp>>

\* The audit process rewrites the object of the store, once.
StoreRewritten ==
    /\ ~st.rewritten
    /\ \E doc \in {d \in StoredObjects : d.json /\ Len(d.auditUsers) = 2} \ {st.store} :
            st' = [st EXCEPT !.store = doc, !.rewritten = TRUE]
    /\ UNCHANGED <<orgDoc, changes, forge, calls, runs, failures, repoOp>>

InitUserCache ==
    /\ st \in {[userCacheMu |-> 0, userCache |-> [ok |-> FALSE, users |-> NoUsers],
                userCacheTime |-> 0, now |-> 0, store |-> doc, rewritten |-> FALSE,
                started |-> 0, procs |-> [p \in Goroutines |-> IdleLookup]] :
                    doc \in {d \in StoredObjects : Len(d.auditUsers) # 2}}
    /\ orgDoc = EmptyOrg
    /\ forge = EmptyForge
    /\ changes = NoChanges
    /\ calls = <<>>
    /\ runs = <<>>
    /\ failures = 0
    /\ repoOp = NoRepoOp

NextUserCache ==
    \/ \E p \in Goroutines : \E id \in LookupIDs : CallLookup(p, supportedOrgName, id)
    \/ \E p \in Goroutines : CallLookup(p, "other", <<"l">>)
    \/ \E p \in Goroutines : Lock(p)
    \/ \E p \in Goroutines : UnsupportedOrg(p)
    \/ \E p \in Goroutines : CacheHit(p)
    \/ \E p \in Goroutines : CacheMiss(p)
    \/ \E p \in Goroutines : GetObjectFails(p)
    \/ \E p \in Goroutines : GetObject(p)
    \/ \E p \in Goroutines : UnmarshalFails(p)
    \/ \E p \in Goroutines : Unmarshal(p)
    \/ \E p \in Goroutines : BuildEntry(p)
    \/ \E p \in Goroutines : Publish(p)
    \/ \E p \in Goroutines : Unlock(p)
    \/ Tick
    \/ StoreRewritten

SpecUserCache == InitUserCache /\ [][NextUserCache]_vars

-----------------------------------------------------------------------------
(* Properties *)

\* The calls of kind op in the log of the running operation.
CallsOf(op) == {k \in 1..Len(calls) : calls[k].op = op}

WriteCalls == {k \in 1..Len(calls) : calls[k].op \in WriteOps}

\* ApplyOrg is about to return its result without an error.
Succeeded == st.pc = "return" /\ st.err = ""

\* The ids of the teams ApplyOrg keeps: matched, updated or created.
KeptTeamIDs == {st.keptTeams[k].team.ID : k \in 1..Len(st.keptTeams)}

\* Run k is a run on the real forge that succeeded, and run k + 1 starts
\* from the forge as run k left it and meets no outage.
RunsInARow(k) ==
    /\ ~runs[k].readOnly
    /\ runs[k].err = ""
    /\ ~runs[k].injected
    /\ runs[k + 1].forge0 = runs[k].forge1
    /\ ~runs[k + 1].injected

\* C1 (as stated): when ApplyOrg has succeeded on the real forge and runs again
\* with nothing changed in between, the second run makes no write call and
\* returns the zero ApplyOrgResult.
C1_SecondRunWritesNothing ==
    \A k \in 1..(Len(runs) - 1) :
        RunsInARow(k) =>
            /\ runs[k + 1].writes = 0
            /\ runs[k + 1].err = ""
            /\ runs[k + 1].result = ZeroResult

\* The premise of C2 for desired team i: one previous name, carried by an
\* observed team.
RenamedFrom(i) ==
    /\ Len(st.org.Teams[i].Previously) = 1
    /\ FirstNamed(st.haveTeams, st.org.Teams[i].Previously[1]) # 0

\* The id X of the observed team that carries the previous name of desired team i.
OldTeamID(i) == st.haveTeams[FirstNamed(st.haveTeams, st.org.Teams[i].Previously[1])].ID

\* What C2 concludes for desired team i: X is kept as its team, with exactly
\* one UpdateTeam call for X, carrying the team's name, description and
\* parent, no DeleteTeam call for X and no CreateTeam call for the team.
KeptByRename(i) ==
    LET t == st.org.Teams[i]
        updates == {k \in CallsOf("UpdateTeam") : calls[k].id = OldTeamID(i)}
    IN  /\ st.keptTeams[i].team.ID = OldTeamID(i)
        /\ Cardinality(updates) = 1
        /\ \A k \in updates :
            /\ calls[k].team.Name = t.Name
            /\ calls[k].team.Description = t.Description
            /\ calls[k].team.ParentID =
                    (IF t.parent = 0 THEN 0 ELSE st.keptTeams[t.parent].team.ID)
        /\ \A k \in CallsOf("DeleteTeam") : calls[k].id # OldTeamID(i)
        /\ \A k \in CallsOf("CreateTeam") : calls[k].idx # i

\* No observed team carries the name of desired team i, and no other desired
\* team has the previous name of team i as its name or as a previous name.
OnlyMatch(i) ==
    /\ FirstNamed(st.haveTeams, st.org.Teams[i].Name) = 0
    /\ \A j \in 1..Len(st.org.Teams) :
        j # i => st.org.Teams[i].Previously[1]
                    \notin {st.org.Teams[j].Name} \cup Range(st.org.Teams[j].Previously)

\* C2 (as stated): in a successful ApplyOrg, a desired team with one previous
\* name that an observed team X carries keeps X: one UpdateTeam for X, no
\* DeleteTeam for X, no CreateTeam for the team.
C2_RenameKeepsTeam ==
    Succeeded => \A i \in 1..Len(st.org.Teams) : RenamedFrom(i) => KeptByRename(i)

\* C2 (amended): the same, for a desired team whose own name no observed team
\* carries and whose previous name no other desired team names.
C2_RenameKeepsTeamWhenOnlyMatch ==
    Succeeded =>
        \A i \in 1..Len(st.org.Teams) : RenamedFrom(i) /\ OnlyMatch(i) => KeptByRename(i)

C2_Witness ==
    /\ Succeeded
    /\ \E i \in 1..Len(st.org.Teams) :
        /\ RenamedFrom(i) /\ OnlyMatch(i)
        /\ st.org.Teams[i].parent # 0
        /\ \E k \in CallsOf("UpdateTeam") : calls[k].id = OldTeamID(i) /\ calls[k].delegated

\* C3: once the rule engine has returned an error, ApplyOrg returns that
\* error; it has made no write call and the forge is as it was.
C3_RuleErrorStopsApplyOrg ==
    (st.pc \notin {"idle", "rules"} /\ st.ruleErr # "nil") =>
        /\ st.pc = "return"
        /\ st.err = st.ruleErr
        /\ WriteCalls = {}
        /\ forge = st.forge0

C3_Witness ==
    /\ st.pc = "return"
    /\ st.ruleErr = "CompositeRuleError"
    /\ ~st.readOnly
    /\ st.org.Teams # <<>>

\* The emails desired team i lists for the role (after the admins were promoted).
WantOf(i, role) ==
    Range(IF role = RoleMaintainer THEN st.org.Teams[i].Maintainers
          ELSE st.org.Teams[i].Members)

\* C4 (as stated): when ApplyOrg has succeeded on the real forge, the forge's
\* maintainers and members of the team kept for each desired team are the
\* desired team's maintainers and members after admin promotion.
C4_MembershipsReconciled ==
    (Succeeded /\ ~st.readOnly) =>
        \A i \in 1..Len(st.org.Teams) : \A role \in Roles :
            SvcListTeamMembers(forge, st.keptTeams[i].team.ID, role) = WantOf(i, role)

\* C5: DeleteTeam is called only once every desired team has its kept team, and
\* after every CreateTeam and UpdateTeam; in a successful ApplyOrg it is called
\* once for each observed team whose id is not kept, and never for a kept id.
C5_OrphansDeletedOnce ==
    /\ (st.pc # "idle" /\ CallsOf("DeleteTeam") # {}) =>
            /\ Len(st.keptTeams) = Len(st.org.Teams)
            /\ \A d \in CallsOf("DeleteTeam") :
                \A k \in CallsOf("CreateTeam") \cup CallsOf("UpdateTeam") : k < d
    /\ Succeeded =>
            /\ \A j \in 1..Len(st.haveTeams) :
                Cardinality({d \in CallsOf("DeleteTeam") : calls[d].id = st.haveTeams[j].ID})
                    = (IF st.haveTeams[j].ID \in KeptTeamIDs THEN 0 ELSE 1)
            /\ \A d \in CallsOf("DeleteTeam") :
                calls[d].id \in {st.haveTeams[j].ID : j \in 1..Len(st.haveTeams)} \ KeptTeamIDs

C5_Witness ==
    /\ Succeeded
    /\ ~st.readOnly
    /\ CallsOf("DeleteTeam") # {}
    /\ CallsOf("UpdateTeam") # {}
    /\ \E k \in 1..Len(st.keptTeams) : ~st.keptTeams[k].created

\* The listing ApplyOrg took of the role for kept team i: empty for a created team.
HaveOf(i, role) ==
    UNION {calls[k].emails :
            k \in {c \in CallsOf("ListTeamMembers") : calls[c].idx = i /\ calls[c].role = role}}

MembershipCalls(op, i, role) ==
    {k \in CallsOf(op) : calls[k].idx = i /\ calls[k].role = role}

\* C6: in a successful ApplyOrg, for each kept team and each role the
\* AddTeamMembership calls are one for each email wanted and not had, and the
\* DeleteTeamMembership calls one for each email had and not wanted; a created
\* team is not listed.
C6_MembershipDiff ==
    Succeeded =>
        \A i \in 1..Len(st.keptTeams) : \A role \in Roles :
            LET adds == MembershipCalls("AddTeamMembership", i, role)
                dels == MembershipCalls("DeleteTeamMembership", i, role)
            IN  /\ {calls[k].email : k \in adds} = WantOf(i, role) \ HaveOf(i, role)
                /\ Cardinality(adds) = Cardinality(WantOf(i, role) \ HaveOf(i, role))
                /\ {calls[k].email : k \in dels} = HaveOf(i, role) \ WantOf(i, role)
                /\ Cardinality(dels) = Cardinality(HaveOf(i, role) \ WantOf(i, role))
                /\ Cardinality(MembershipCalls("ListTeamMembers", i, role))
                        = (IF st.keptTeams[i].created THEN 0 ELSE 1)

C6_Witness ==
    /\ Succeeded
    /\ \E i \in 1..Len(st.keptTeams) :
        /\ MembershipCalls("AddTeamMembership", i, RoleMember) # {}
        /\ MembershipCalls("DeleteTeamMembership", i, RoleMember) # {}
        /\ HaveOf(i, RoleMaintainer) # {}

\* Whether the operation the call log belongs to runs on a read-only platform.
OnReadOnlyPlatform ==
    IF st.pc # "idle" THEN st.readOnly ELSE repoOp.op # "" /\ repoOp.readOnly

\* C7: on a read-only platform no write call of ApplyOrg, UpdateRepoTeams or
\* UpdateAdminTopics reaches the wrapped service, only read calls do, and
\* ApplyOrg leaves the forge as it was.
C7_ReadOnlyNeverWrites ==
    /\ OnReadOnlyPlatform =>
            \A k \in 1..Len(calls) : calls[k].delegated <=> calls[k].op \in ReadOps
    /\ (st.pc # "idle" /\ st.readOnly) => forge = st.forge0
    /\ \A k \in 1..Len(runs) : runs[k].readOnly => runs[k].forge1 = runs[k].forge0

C7_Witness ==
    /\ repoOp.op = "UpdateRepoTeams"
    /\ repoOp.readOnly
    /\ ~repoOp.err
    /\ CallsOf("AddTeamRepoPermission") # {}
    /\ CallsOf("DeleteTeamRepoPermission") # {}

\* C8 (as stated): a dry run and a real run of ApplyOrg for the same org from
\* the same forge state, neither meeting an outage, both succeed or both fail,
\* and return the same ApplyOrgResult.
C8_DryRunSameOutcome ==
    \A j, k \in 1..Len(runs) :
        (/\ runs[j].readOnly /\ ~runs[k].readOnly
         /\ runs[j].forge0 = runs[k].forge0
         /\ ~runs[j].injected /\ ~runs[k].injected) =>
            /\ (runs[j].err = "") <=> (runs[k].err = "")
            /\ runs[j].result = runs[k].result

\* The successful calls of kind op so far.
Successful(op) == {k \in CallsOf(op) : calls[k].ok}

CountersMatchCalls ==
    st.pc \notin {"idle", "Run", "done"} =>
        /\ st.stats.TeamsCreated = Cardinality(Successful("CreateTeam"))
        /\ st.stats.TeamsUpdated = Cardinality(Successful("UpdateTeam"))
        /\ st.stats.TeamsDeleted = Cardinality(Successful("DeleteTeam"))
        /\ st.stats.TeamMembershipsAdded = Cardinality(Successful("AddTeamMembership"))
        /\ st.stats.TeamMembershipsDeleted = Cardinality(Successful("DeleteTeamMembership"))

ResultIsCounters ==
    (st.pc = "return" /\ st.err = "" /\ st'.pc = "idle") =>
        LET res == runs'[Len(runs')].result
        IN  /\ res.TeamsCreated = st.stats.TeamsCreated
            /\ res.TeamsUpdated = st.stats.TeamsUpdated
            /\ res.TeamsDeleted = st.stats.TeamsDeleted
            /\ res.MembershipsAdded = st.stats.TeamMembershipsAdded
            /\ res.MembershipsDeleted = st.stats.TeamMembershipsDeleted

\* C9: at every point of an ApplyOrg run each stats counter is the number of
\* calls of its kind that the delegate has answered without an error, and the
\* ApplyOrgResult returned carries the counters as they are at the end.
C9_CountersCountSuccesses == []CountersMatchCalls /\ [][ResultIsCounters]_vars

C9_Witness ==
    /\ st.pc = "return"
    /\ \E k \in WriteCalls : ~calls[k].ok
    /\ \E k \in WriteCalls : calls[k].ok /\ calls[k].delegated

\* C10: ruleEngine.Run returns nil exactly when every registered rule returns nil.
C10_RunNilIffAllNil ==
    st.pc = "done" =>
        (st.out = "nil" <=> \A k \in 1..Len(st.results) : st.results[k] = "nil")

C10_Witness ==
    /\ st.pc = "done"
    /\ st.out = "nil"
    /\ Len(st.results) > 1

\* The first registered rule that fails with an error that is no RuleError, 0
\* when there is none.
FirstPlainError ==
    IF \E k \in 1..Len(st.results) : st.results[k] = "error"
    THEN CHOOSE k \in 1..Len(st.results) :
            /\ st.results[k] = "error"
            /\ \A j \in 1..(k - 1) : st.results[j] # "error"
    ELSE 0

\* The registered rules that return a RuleError, in registration order.
RuleErrorsInOrder ==
    SelectSeqIdx([k \in 1..Len(st.results) |-> k],
                 {k \in 1..Len(st.results) : st.results[k] = "RuleError"})

\* C11: ruleEngine.Run runs the rules in registration order; the first error
\* that is no RuleError is returned as it is, no later rule runs and the
\* RuleErrors collected are dropped; without such an error, one RuleError or
\* more give a CompositeRuleError with the org's name and one entry for each
\* failing rule, in registration order.
C11_RunShortCircuitsOrCollects ==
    st.pc = "done" =>
        /\ FirstPlainError # 0 =>
                /\ st.out = "error"
                /\ st.errors = <<FirstPlainError>>
                /\ st.ran = FirstPlainError
        /\ (FirstPlainError = 0 /\ RuleErrorsInOrder # <<>>) =>
                /\ st.out = "CompositeRuleError"
                /\ st.OrgName = orgDoc.Name
                /\ st.errors = RuleErrorsInOrder
                /\ st.ran = Len(st.results)

C11_Witness ==
    /\ st.pc = "done"
    /\ st.out = "error"
    /\ st.ran < Len(st.results)
    /\ \E k \in 1..(st.ran - 1) : st.results[k] = "RuleError"

\* activeTeamDeletionsRule has run and the forge answered its reads.
TeamDeletionsRuleRan ==
    st.pc = "done" /\ st.rule = "activeTeamDeletions" /\ st.out # "error"

\* The names the desired tree holds: each team's name and previous names.
DesiredNames ==
    UNION {{orgDoc.Teams[i].Name} \cup Range(orgDoc.Teams[i].Previously) :
            i \in 1..Len(orgDoc.Teams)}

\* Observed team j is the match of desired team i: it carries the team's name,
\* or, when no observed team does, the first previous name that one carries.
IsMatchOf(j, i) ==
    LET t == orgDoc.Teams[i]
        carried == {k \in 1..Len(t.Previously) :
                      \E h \in 1..Len(forge.teams) : forge.teams[h].Name = t.Previously[k]}
    IN  \/ forge.teams[j].Name = t.Name
        \/ /\ \A h \in 1..Len(forge.teams) : forge.teams[h].Name # t.Name
           /\ \E k \in carried :
                /\ \A m \in carried : k <= m
                /\ forge.teams[j].Name = t.Previously[k]

\* What the rule reports when it reports the observed teams in js.
ReportOf(js) == {<<forge.teams[j].Name, listTeamRepoNames(forge, forge.teams[j].ID)>> : j \in js}

OnSomeRepo(j) == listTeamRepoNames(forge, forge.teams[j].ID) # {}

\* C12 (as stated): the rule reports, with its repositories, each observed
\* team on a repository whose name is no desired team's name or previous
\* name, and returns nil when there is none.
C12_ReportsTeamsNoDesiredTeamNames ==
    TeamDeletionsRuleRan =>
        LET js == {j \in 1..Len(forge.teams) :
                      forge.teams[j].Name \notin DesiredNames /\ OnSomeRepo(j)}
        IN  /\ st.violations = ReportOf(js)
            /\ st.out = "nil" <=> js = {}

\* C12 (amended): the rule reports, with its repositories, each observed team
\* on a repository that is the match of no desired team, and returns nil when
\* there is none.
C12_ReportsUnmatchedTeams ==
    TeamDeletionsRuleRan =>
        LET js == {j \in 1..Len(forge.teams) :
                      /\ \A i \in 1..Len(orgDoc.Teams) : ~IsMatchOf(j, i)
                      /\ OnSomeRepo(j)}
        IN  /\ st.violations = ReportOf(js)
            /\ st.out = "nil" <=> js = {}

C12_Witness ==
    /\ TeamDeletionsRuleRan
    /\ st.out = "RuleError"
    /\ \E j \in 1..Len(forge.teams) :
        /\ forge.teams[j].Name \in DesiredNames
        /\ OnSomeRepo(j)
        /\ \E i \in 1..Len(orgDoc.Teams) : IsMatchOf(j, i) /\ orgDoc.Teams[i].Name # forge.teams[j].Name
    /\ Cardinality(st.violations) = 1

\* The teams on the path from the root to team i of the desired tree, team i included.
PathTo(i) == {i} \cup Range(Ancestors(orgDoc.Teams, i))

\* Whether the layer of team j lets the email in: one of its patterns matches,
\* where a team below the top level without patterns has the pattern ".*".
LayerAllows(j, email) ==
    LET t == orgDoc.Teams[j]
    IN  IF t.RestrictMembers = <<>>
        THEN t.parent # 0
        ELSE \E k \in 1..Len(t.RestrictMembers) : Matches(t.RestrictMembers[k], email)

SecondTopicsRun ==
    st.pc = "idle" /\ repoOp.op = "UpdateAdminTopics" /\ repoOp.follows = "UpdateAdminTopics"

\* C14: an UpdateAdminTopics that follows a successful UpdateAdminTopics on
\* the same forge makes no UpdateRepoTopics call and reports no repo updated.
C14_SecondRunUpdatesNoTopics ==
    SecondTopicsRun =>
        /\ CallsOf("UpdateRepoTopics") = {}
        /\ ~repoOp.err => repoOp.result.ReposUpdated = 0

C14_Witness ==
    /\ SecondTopicsRun
    /\ ~repoOp.readOnly /\ ~repoOp.err
    /\ \E i \in 1..Len(forge.repos) :
        /\ \E t \in Range(forge.repos[i].Topics) : Len(t) = maxTopicLength - 1
        /\ <<"x">> \in Range(forge.repos[i].Topics)

\* The topics a repo of the forge should have: its topics without the prefix
\* "admin-" and, for each team with admin permission on it, "admin-" and the
\* normalised name of the team, cut to 34 characters.
TargetTopics(i) ==
    LET Cut(t) == IF Len(t) > 34 THEN SubSeq(t, 1, 34) ELSE t
    IN  {t \in Range(forge.repos[i].Topics) :
            Len(t) < 6 \/ SubSeq(t, 1, 6) # adminTopicPrefix}
            \cup {Cut(adminTopicPrefix \o normaliseName(TeamByID(forge, p.teamID).Name)) :
                    p \in {q \in forge.repos[i].Teams : q.permission = RepoPermissionAdmin}}

\* The list is in ascending order and names nothing twice.
Ascending(l) == \A k \in 1..(Len(l) - 1) : StrLess(l[k], l[k + 1])

\* A step that is an UpdateAdminTopics returning no error writes, once, the
\* topics of each repo whose topics are not those it should have.
TopicsWrittenAsDue ==
    (repoOp'.n = repoOp.n + 1 /\ repoOp'.op = "UpdateAdminTopics" /\ ~repoOp'.err) =>
        \A i \in 1..Len(forge.repos) :
            LET cs == {k \in 1..Len(calls') :
                          /\ calls'[k].op = "UpdateRepoTopics"
                          /\ calls'[k].repo = forge.repos[i].Name}
            IN  /\ Cardinality(cs) =
                        (IF Range(forge.repos[i].Topics) # TargetTopics(i) THEN 1 ELSE 0)
                /\ \A k \in cs : /\ Range(calls'[k].topics) = TargetTopics(i)
                                  /\ Ascending(calls'[k].topics)

\* C15: UpdateRepoTopics is called for a repo exactly when its topics differ,
\* as a set, from the topics it should have, and the list written is that
\* set in ascending order without duplicates.
C15_TopicsWrittenIffDifferent == [][TopicsWrittenAsDue]_vars

C15_Witness ==
    /\ st.pc = "idle" /\ repoOp.op = "UpdateAdminTopics" /\ ~repoOp.err /\ ~repoOp.readOnly
    /\ repoOp.n = 1
    /\ \E k \in CallsOf("UpdateRepoTopics") :
        /\ Len(calls[k].topics) = 3
        /\ \E t \in Range(calls[k].topics) : Len(t) = 34
        /\ <<"x">> \in Range(calls[k].topics)
    /\ Cardinality(CallsOf("UpdateRepoTopics")) = 2

\* Repo i of the forge holds the team of that name with that very permission.
Holds(i, tp) ==
    \E p \in forge.repos[i].Teams :
        /\ p.permission = tp.Permission
        /\ TeamByID(forge, p.teamID).Name = tp.TeamName

\* The change set excludes the repo name, whatever the case of the letters.
Excluded(name) == \E e \in Range(changes.ExcludeRepos) : ToLower(e) = ToLower(name)

\* Repo i of the forge is among the repos the change set is applied to.
Walked(i) ==
    changes.OnlyRepos = <<>> \/ forge.repos[i].Name \in Range(changes.OnlyRepos)

\* The id the forge lists for the team of that name, 0 when it lists none.
IDOfName(name) ==
    IF \E t \in Range(forge.teams) : t.Name = name
    THEN (CHOOSE t \in Range(forge.teams) : t.Name = name).ID
    ELSE 0

\* The removals due on repo i, as the ids handed to DeleteTeamRepoPermission,
\* and the additions due, as the ids and permissions handed to
\* AddTeamRepoPermission, in the order of the change set.
RemovalsDue(i) ==
    LET due == SelectSeq(changes.RemoveTeams, LAMBDA tp : Holds(i, tp))
    IN  [k \in 1..Len(due) |-> IDOfName(due[k].TeamName)]
AdditionsDue(i) ==
    LET due == SelectSeq(changes.AddTeams, LAMBDA tp : ~Holds(i, tp))
    IN  [k \in 1..Len(due) |-> <<IDOfName(due[k].TeamName), due[k].Permission>>]

\* The removals and additions the step has issued for the repo of that name.
RemovalsIssued(name) ==
    LET cs == SelectSeq(calls', LAMBDA c : c.op = "DeleteTeamRepoPermission" /\ c.repo = name)
    IN  [k \in 1..Len(cs) |-> cs[k].id]
AdditionsIssued(name) ==
    LET cs == SelectSeq(calls', LAMBDA c : c.op = "AddTeamRepoPermission" /\ c.repo = name)
    IN  [k \in 1..Len(cs) |-> <<cs[k].id, cs[k].permission>>]

\* l is the beginning of m.
IsPrefix(l, m) == Len(l) <= Len(m) /\ SubSeq(m, 1, Len(l)) = l

\* A step that is an UpdateRepoTeams issues, for each repo it is applied to
\* and does not exclude, the removals and the additions due and no other;
\* when it fails, it has issued a beginning of them.
PermissionsWrittenAsDue ==
    (repoOp'.n = repoOp.n + 1 /\ repoOp'.op = "UpdateRepoTeams") =>
        \A i \in 1..Len(forge.repos) :
            (Walked(i) /\ ~Excluded(forge.repos[i].Name)) =>
                IF repoOp'.err
                THEN /\ IsPrefix(RemovalsIssued(forge.repos[i].Name), RemovalsDue(i))
                     /\ IsPrefix(AdditionsIssued(forge.repos[i].Name), AdditionsDue(i))
                ELSE /\ RemovalsIssued(forge.repos[i].Name) = RemovalsDue(i)
                     /\ AdditionsIssued(forge.repos[i].Name) = AdditionsDue(i)

\* C16: on every repo walked and not excluded, UpdateRepoTeams removes an
\* entry of RemoveTeams exactly when the repo holds that team with that
\* permission, and adds an entry of AddTeams exactly when it does not; a team
\* held with another permission is not removed.
C16_ExactPairDecidesWrites == [][PermissionsWrittenAsDue]_vars

\* UpdateRepoTeams has run to its end on the forge: it was asked to remove
\* (b, admin) and (a, admin) and to add (b, admin) on repo r, which held
\* (b, pull) and (a, admin): a was removed, b was not and was added as admin.
C16_Witness ==
    /\ repoOp.op = "UpdateRepoTeams" /\ repoOp.n = 1 /\ ~repoOp.err /\ ~repoOp.readOnly
    /\ changes.RemoveTeams = <<TeamPermission(<<"b">>, RepoPermissionAdmin),
                               TeamPermission(<<"a">>, RepoPermissionAdmin)>>
    /\ changes.AddTeams = <<TeamPermission(<<"b">>, RepoPermissionAdmin)>>
    /\ changes.ExcludeRepos = <<>>
    /\ \E k \in CallsOf("DeleteTeamRepoPermission") : calls[k].repo = RepoName /\ calls[k].id = 1
    /\ \A k \in CallsOf("DeleteTeamRepoPermission") : calls[k].id # 2
    /\ \E k \in CallsOf("AddTeamRepoPermission") : calls[k].repo = RepoName /\ calls[k].id = 2
    /\ forge.repos[1].Teams = {[teamID |-> 2, permission |-> RepoPermissionAdmin]}

\* The calls of UpdateRepoTeams that write a team permission.
PermissionWrites == CallsOf("AddTeamRepoPermission") \cup CallsOf("DeleteTeamRepoPermission")

\* C17: UpdateRepoTeams writes no team permission of a repo whose name is,
\* ignoring case, an entry of ExcludeRepos; when such a repo is listed in
\* OnlyRepos and the run does not fail, it is fetched all the same.
C17_ExcludedReposNotWritten ==
    repoOp.op = "UpdateRepoTeams" =>
        /\ \A k \in PermissionWrites : ~Excluded(calls[k].repo)
        /\ ~repoOp.err =>
                \A name \in Range(changes.OnlyRepos) :
                    \E k \in CallsOf("RepoByName") : calls[k].repo = name

\* Repo r, excluded as "R" and listed in OnlyRepos after s, was fetched and
\* not written, while s was written.
C17_Witness ==
    /\ repoOp.op = "UpdateRepoTeams" /\ ~repoOp.err /\ ~repoOp.readOnly
    /\ changes.ExcludeRepos = << <<"R">> >>
    /\ changes.OnlyRepos = << <<"s">>, RepoName >>
    /\ \E k \in CallsOf("RepoByName") : calls[k].repo = RepoName
    /\ \E k \in PermissionWrites : calls[k].repo = <<"s">>
    /\ changes.AddTeams = <<TeamPermission(<<"b">>, RepoPermissionAdmin)>>
    /\ ~Holds(1, TeamPermission(<<"b">>, RepoPermissionAdmin))

\* The change set names a team the forge does not list.
NamesUnknownTeam ==
    \E tp \in Range(changes.AddTeams \o changes.RemoveTeams) :
        \A t \in Range(forge.teams) : t.Name # tp.TeamName

\* C18: when the change set names a team that ListTeams does not return,
\* UpdateRepoTeams fails, having walked or fetched no repo and written no
\* team permission.
C18_UnknownTeamFailsBeforeRepos ==
    (repoOp.op = "UpdateRepoTeams" /\ NamesUnknownTeam) =>
        /\ repoOp.err
        /\ CallsOf("WalkRepos") = {} /\ CallsOf("RepoByName") = {}
        /\ PermissionWrites = {}

\* The team to remove is unknown, ListTeams has answered, and the run failed.
C18_Witness ==
    /\ repoOp.op = "UpdateRepoTeams" /\ NamesUnknownTeam /\ repoOp.err
    /\ changes.AddTeams # <<>>
    /\ \A tp \in Range(changes.AddTeams) : \E t \in Range(forge.teams) : t.Name = tp.TeamName
    /\ Len(calls) = 1 /\ calls[1].op = "ListTeams" /\ calls[1].ok
    /\ Len(forge.repos) = 2

\* The receives of the worker that returned a message whose payload is an
\* event, and the calls the worker made after receive k and before its next
\* receive.
ParsedReceives ==
    {k \in CallsOf("ReceiveMessage") :
        calls[k].ok /\ calls[k].handle # 0 /\ calls[k].message.payloadOK}
TurnOf(k) ==
    {j \in (k + 1)..Len(calls) :
        \A i \in (k + 1)..j : calls[i].op # "ReceiveMessage"}

\* The turn of the loop that began with receive k is over: the worker has
\* received again or is about to.
TurnOver(k) ==
    \/ \E j \in CallsOf("ReceiveMessage") : j > k
    \/ st.pc = "receive"

\* C19: for every message received whose event the worker went through, the
\* worker calls delete once, with the receipt handle of that message, after
\* whatever the dispatch called and before it receives again.
C19_DeletedOnceBeforeNextReceive ==
    \A k \in ParsedReceives :
        TurnOver(k) =>
            LET ds == {j \in TurnOf(k) : calls[j].op = "DeleteMessage"}
            IN  /\ Cardinality(ds) = 1
                /\ \A j \in ds : /\ calls[j].handle = calls[k].handle
                                  /\ \A i \in TurnOf(k) : i <= j

\* Two messages went through the loop: the dispatch of the first returned an
\* error of the forge, the second carried an action the worker does not
\* know; both were deleted.
C19_Witness ==
    /\ st.pc = "receive"
    /\ Len(runs) = 2 /\ runs[1].outcome = "error" /\ runs[2].outcome = "error"
    /\ \E k1, k2 \in ParsedReceives :
        /\ k1 < k2
        /\ calls[k1].message.event.Action = "added_to_repository"
        /\ \E j \in TurnOf(k1) : calls[j].op = "UpdateRepoAdminTopics" /\ ~calls[j].ok
        /\ calls[k2].message.event.Action = "renamed"
    /\ Cardinality(CallsOf("DeleteMessage")) = 2

\* The calls into orgbot of the turn that began with receive k, in order.
DispatchesOf(k) ==
    SelectSeq([j \in 1..Len(calls) |-> [at |-> j, call |-> calls[j]]],
              LAMBDA c : /\ c.at \in TurnOf(k)
                         /\ c.call.op \in {"UpdateRepoAdminTopics", "UpdateTeamAdminTopics"})

\* The turn that began with receive k called nothing but the delete.
OnlyDeleted(k) == \A j \in TurnOf(k) : calls[j].op = "DeleteMessage"

\* The dispatch of the message with that receipt handle returned an error.
DispatchFailed(handle) == \E i \in 1..Len(runs) : runs[i].handle = handle /\ runs[i].outcome = "error"

\* The dispatch table, for the event of receive k.
DispatchedByTable(k) ==
    LET e == calls[k].message.event
        ds == DispatchesOf(k)
    IN  IF ~e.RepoNil /\ e.Fork THEN OnlyDeleted(k)
        ELSE IF e.Action \in {"added_to_repository", "removed_from_repository"} /\ e.RepoNil
        THEN FALSE    \* the worker has ended on the nil Repo: its turn is never over
        ELSE IF \/ e.Action \in {"added_to_repository", "removed_from_repository"}
                \/ e.Action = "edited" /\ ~e.RepoNil
        THEN /\ Len(ds) = 1
             /\ ds[1].call.op = "UpdateRepoAdminTopics"
             /\ ds[1].call.org = e.Owner /\ ds[1].call.repo = e.RepoName
             /\ ds[1].at = k + 1
        ELSE IF e.Action = "edited"
        THEN /\ Len(ds) = 1
             /\ ds[1].call.op = "UpdateTeamAdminTopics"
             /\ ds[1].call.org = e.Org /\ ds[1].call.teamID = e.TeamID
             /\ ds[1].at = k + 1
        ELSE IF e.Action \in {"created", "deleted"}
        THEN OnlyDeleted(k) /\ ~DispatchFailed(calls[k].handle)
        ELSE IF e.Action # ""
        THEN OnlyDeleted(k) /\ DispatchFailed(calls[k].handle)
        ELSE OnlyDeleted(k)

\* C20: a fork makes the worker call nothing on the forge; otherwise
\* added_to_repository, removed_from_repository and edited with a repo call
\* UpdateRepoAdminTopics(owner, repo), edited without a repo calls
\* UpdateTeamAdminTopics(org, team id), created and deleted call nothing, and
\* any other action is an error and calls nothing.
C20_DispatchFollowsTable ==
    \A k \in ParsedReceives : TurnOver(k) => DispatchedByTable(k)

\* Two messages went through the loop: edited without a repo, which called
\* UpdateTeamAdminTopics and wrote the topics of repo r, then removed from a
\* repo that is a fork, which called nothing.
C20_Witness ==
    /\ st.pc = "receive" /\ Len(runs) = 2
    /\ runs[1].outcome = "done" /\ runs[2].outcome = "fork"
    /\ \E k1, k2 \in ParsedReceives :
        /\ k1 < k2
        /\ calls[k1].message.event.Action = "edited" /\ calls[k1].message.event.RepoNil
        /\ \E j \in TurnOf(k1) \ TurnOf(k2) : calls[j].op = "UpdateRepoTopics" /\ calls[j].ok
        /\ calls[k2].message.event.Action = "removed_from_repository"
        /\ calls[k2].message.event.Fork
        /\ OnlyDeleted(k2)

-----------------------------------------------------------------------------
(* C21 *)

\* The org with the maintainers of every team cleared.
MaintainersCleared(org) ==
    [org EXCEPT !.Teams = [i \in 1..Len(org.Teams) |->
                                [org.Teams[i] EXCEPT !.Maintainers = <<>>]]]

\* C21 (as stated): for any Org, UnmergeOrg followed by MergeOrg of the
\* directory written succeeds, and the Org read equals SortOrg(org) with the
\* maintainers cleared.
C21_MergeOfUnmergeIsSortOrg ==
    st.pc = "done" =>
        /\ st.err = ""
        /\ st.mergeErr = ""
        /\ st.org = MaintainersCleared(SortOrg(orgDoc))

\* The same for an org whose members are listed in order and whose teams
\* have names that are their own directory names, distinct among siblings:
\* the round trip the tests exercise. Used to see the model agree with the
\* claim where the code does.
SelfNamed(org) ==
    /\ normaliseName(org.Name) # <<>>
    /\ \A i \in 1..Len(org.Teams) :
        /\ normaliseName(org.Teams[i].Name) = org.Teams[i].Name
        /\ org.Teams[i].Members = sort_Strings(org.Teams[i].Members)
        /\ \A j \in 1..Len(org.Teams) :
            i # j /\ org.Teams[i].parent = org.Teams[j].parent
                => org.Teams[i].Name # org.Teams[j].Name

RoundTripOfSelfNamed ==
    st.pc = "done" /\ SelfNamed(orgDoc) =>
        /\ st.err = ""
        /\ st.mergeErr = ""
        /\ st.org = MaintainersCleared(SortOrg(orgDoc))

RoundTripOfSelfNamedSeen ==
    /\ st.pc = "done" /\ SelfNamed(orgDoc)
    /\ Len(orgDoc.Teams) = 3 /\ orgDoc.Teams[3].parent = 2
    /\ orgDoc.Teams[1].Name = <<"b">> /\ orgDoc.Teams[2].Name = <<"a">>

-----------------------------------------------------------------------------
(* C22 *)

\* s matches ^[a-z0-9]([a-z0-9-]*[a-z0-9])?$ and has no two adjacent hyphens.
WellFormedName(s) ==
    /\ s # <<>>
    /\ \A i \in 1..Len(s) : s[i] \in Range(Lowers) \cup Range(Digits) \cup {"-"}
    /\ s[1] # "-" /\ s[Len(s)] # "-"
    /\ \A i \in 1..(Len(s) - 1) : ~(s[i] = "-" /\ s[i + 1] = "-")

\* C22: for every team name of at most 35 characters normaliseName(name) is
\* empty or made of a-z, 0-9 and '-' only, starts and ends with a letter or
\* a digit and has no two adjacent hyphens; and normaliseName of that result
\* is the result itself.
C22_NormalisedNameWellFormed ==
    /\ st.pc \in {"normalised", "again"} /\ Len(st.name) <= maxTeamNameLength
            => st.out = <<>> \/ WellFormedName(st.out)
    /\ st.pc = "again" /\ Len(st.name) <= maxTeamNameLength => st.again = st.out

\* A name with a dropped character between two hyphens and separators at
\* both ends has been normalised twice.
C22_Witness ==
    /\ st.pc = "again"
    /\ st.name = <<"_", "B", "-", "!", "-">>
    /\ st.out = <<"b">>

-----------------------------------------------------------------------------
(* C23 *)

TeamWriteOps == {"CreateTeam", "UpdateTeam", "DeleteTeam"}

\* C23 (as stated): in ApplyOrg every CreateTeam, UpdateTeam and DeleteTeam
\* call comes after a ListAdmins call that succeeded, and a run whose
\* ListAdmins call failed has made no write call on the forge.
C23_AdminsListedBeforeTeamWrites ==
    /\ \A k \in 1..Len(calls) :
            calls[k].op \in TeamWriteOps
                => \E j \in 1..(k - 1) : calls[j].op = "ListAdmins" /\ calls[j].ok
    /\ \A k \in 1..Len(calls) :
            calls[k].op = "ListAdmins" /\ ~calls[k].ok
                => \A j \in 1..Len(calls) : ~(calls[j].op \in WriteOps /\ calls[j].delegated)

-----------------------------------------------------------------------------
(* C24 *)

\* The observed teams that ApplyOrg did not keep, once every desired team
\* has its kept team.
Orphans == {st.haveTeams[j].ID : j \in 1..Len(st.haveTeams)} \ KeptTeamIDs

\* ApplyOrg is about to return from a run on the real forge that met no
\* outage and got past the desired teams, and among the orphans there is a
\* team together with one of its descendants on the forge.
ReturnsWithNestedOrphans ==
    /\ st.pc = "return"
    /\ ~st.readOnly
    /\ ~st.injected
    /\ st.ruleErr = "nil"
    /\ Len(st.keptTeams) = Len(st.org.Teams)
    /\ \E a \in Orphans : \E b \in Orphans :
            /\ CallsOf("DeleteTeam") # {}
            /\ b \in Descendants([teams |-> st.haveTeams], a)

\* C24 (as stated): when the orphans hold a team and one of its descendants,
\* ApplyOrg completes without an error and every orphan is gone from the
\* forge, in whatever order the listing has them.
C24_NestedOrphansAllDeleted ==
    ReturnsWithNestedOrphans =>
        /\ st.err = ""
        /\ Orphans \cap TeamIDs(forge) = {}

-----------------------------------------------------------------------------
(* C25 *)

ApplyOrgOps ==
    {"ListTeams", "CreateTeam", "UpdateTeam", "DeleteTeam", "ListAdmins",
     "ListTeamMembers", "AddTeamMembership", "DeleteTeamMembership"}

\* The calls of the running ApplyOrg that the service answered with an error.
FailedCalls == {k \in 1..Len(calls) : calls[k].op \in ApplyOrgOps /\ ~calls[k].ok}

\* A failed call is the last call of its run, and the run is at its return
\* with the error.
FailedCallIsLast ==
    st.pc \notin {"idle", "Run", "done"} =>
        \A k \in FailedCalls : k = Len(calls) /\ st.pc = "return" /\ st.err # ""

\* ApplyOrg returns the error and a nil result, and the forge is as the
\* failed call left it.
FailedRunReturnsNil ==
    (st.pc = "return" /\ FailedCalls # {} /\ st'.pc = "idle") =>
        /\ runs'[Len(runs')].err # ""
        /\ runs'[Len(runs')].result = NilResult
        /\ forge' = forge

\* C25: when a call of ApplyOrg on the service fails, ApplyOrg returns that
\* error with a nil result and makes no call after the failed one: no later
\* write and no compensating write.
C25_FailedCallEndsApplyOrg == []FailedCallIsLast /\ [][FailedRunReturnsNil]_vars

\* A membership delete has failed on the real forge after a membership add
\* that succeeded.
C25_Witness ==
    /\ st.pc = "return"
    /\ ~st.readOnly
    /\ FailedCalls # {}
    /\ calls[Len(calls)].op = "DeleteTeamMembership"
    /\ Successful("AddTeamMembership") # {}

-----------------------------------------------------------------------------
(* C26 *)

\* Run k was aborted by a failure of the forge, and run k + 1 is a run on the
\* real forge from the state run k left, meeting no failure, of an org the
\* rule engine accepts.
RunAfterAbortedRun(k) ==
    /\ ~runs[k].readOnly
    /\ runs[k].injected
    /\ runs[k].err # ""
    /\ ~runs[k + 1].readOnly
    /\ runs[k + 1].forge0 = runs[k].forge1
    /\ ~runs[k + 1].injected
    /\ runs[k + 1].err # "CompositeRuleError"

\* C26 (as stated): the ApplyOrg that follows a run aborted by a forge
\* failure, itself meeting no failure, completes without an error, and a
\* further ApplyOrg from the state it leaves makes no write.
C26_NextRunConverges ==
    \A k \in 1..(Len(runs) - 1) :
        RunAfterAbortedRun(k) =>
            /\ runs[k + 1].err = ""
            /\ \A j \in 1..Len(runs) :
                (/\ ~runs[j].readOnly /\ ~runs[j].injected
                 /\ runs[j].forge0 = runs[k + 1].forge1) => runs[j].writes = 0

-----------------------------------------------------------------------------
(* C27 *)

\* The step issues a CreateTeam or UpdateTeam call.
IssuesTeamWrite ==
    /\ Len(calls') = Len(calls) + 1
    /\ calls'[Len(calls')].op \in {"CreateTeam", "UpdateTeam"}

\* The call issued is for desired team idx, every desired team before it in
\* the tree's pre-order (its parent among them) has its kept team, and the
\* parent id carried is the id of the parent's kept team, a team of the forge
\* on a real run; 0 for a top-level team.
TeamWriteCarriesParent ==
    IssuesTeamWrite =>
        LET c == calls'[Len(calls')]
            p == st.org.Teams[c.idx].parent
        IN  /\ Len(st.keptTeams) = c.idx - 1
            /\ p < c.idx
            /\ IF p = 0 THEN c.team.ParentID = 0
               ELSE /\ c.team.ParentID # 0
                    /\ c.team.ParentID = st.keptTeams[p].team.ID
                    /\ ~st.readOnly => c.team.ParentID \in TeamIDs(forge)
                    /\ st.keptTeams[p].created =>
                        \E j \in Successful("CreateTeam") : calls[j].idx = p
                    /\ ~st.keptTeams[p].created =>
                        \E h \in 1..Len(st.haveTeams) :
                            st.haveTeams[h].ID = c.team.ParentID

\* C27: every CreateTeam and UpdateTeam call of ApplyOrg for a desired team
\* carries as parent id the id of the team created or matched earlier in the
\* run for its desired parent (0 for a top-level team); no team is written
\* before its desired parent has been processed.
C27_TeamWritesCarryKeptParent == [][TeamWriteCarriesParent]_vars

\* On the real forge a child has been created below a parent created in the
\* same run.
C27_Witness ==
    /\ st.pc # "idle"
    /\ ~st.readOnly
    /\ \E k \in Successful("CreateTeam") : \E j \in Successful("CreateTeam") :
        /\ j < k
        /\ st.org.Teams[calls[k].idx].parent = calls[j].idx
        /\ calls[k].team.ParentID = st.keptTeams[calls[j].idx].team.ID
        /\ calls[k].team.ParentID \notin {st.haveTeams[h].ID : h \in 1..Len(st.haveTeams)}

-----------------------------------------------------------------------------
(* C28 *)

\* The teams of the listing that desired team i matches: the one carrying its
\* name or, when none does, the one carrying the first of its previous names
\* that a listed team carries.
ObservedMatch(i) ==
    LET t == st.org.Teams[i]
        listed(name) == \E h \in 1..Len(st.haveTeams) : st.haveTeams[h].Name = name
        carried == {k \in 1..Len(t.Previously) : listed(t.Previously[k])}
    IN  {h \in 1..Len(st.haveTeams) :
            \/ st.haveTeams[h].Name = t.Name
            \/ /\ ~listed(t.Name)
               /\ \E k \in carried : /\ \A m \in carried : k <= m
                                     /\ st.haveTeams[h].Name = t.Previously[k]}

\* The parent id desired for team i: the id of its parent's kept team.
DesiredParentID(i) ==
    IF st.org.Teams[i].parent = 0 THEN 0
    ELSE st.keptTeams[st.org.Teams[i].parent].team.ID

TeamWritesFor(op, i) == {k \in CallsOf(op) : calls[k].idx = i}

\* C28: for each desired team matched to an observed team ApplyOrg issues
\* UpdateTeam exactly when the observed parent id, description or name
\* differs from the desired one, and the call carries the observed id with
\* the desired name, description and parent id; no desired team gets more
\* than one team write.
C28_UpdateIffDifferent ==
    st.pc \notin {"idle", "Run", "done"} =>
        /\ \A i \in 1..Len(st.org.Teams) :
            Cardinality(TeamWritesFor("CreateTeam", i) \cup TeamWritesFor("UpdateTeam", i)) <= 1
        /\ \A i \in 1..Len(st.keptTeams) : \A h \in ObservedMatch(i) :
            LET have == st.haveTeams[h]
                want == st.org.Teams[i]
                differs == \/ have.ParentID # DesiredParentID(i)
                           \/ have.Description # want.Description
                           \/ have.Name # want.Name
            IN  /\ TeamWritesFor("CreateTeam", i) = {}
                /\ TeamWritesFor("UpdateTeam", i) # {} <=> differs
                /\ \A k \in TeamWritesFor("UpdateTeam", i) :
                    calls[k].team = GitHubTeam(have.ID, DesiredParentID(i), want.Name,
                                               want.Description)

\* A matched team was updated for its parent alone, another left unwritten.
C28_Witness ==
    /\ Succeeded
    /\ \E i \in 1..Len(st.keptTeams) : \E h \in ObservedMatch(i) :
        /\ TeamWritesFor("UpdateTeam", i) # {}
        /\ st.haveTeams[h].Description = st.org.Teams[i].Description
        /\ st.haveTeams[h].Name = st.org.Teams[i].Name
    /\ \E i \in 1..Len(st.keptTeams) :
        /\ ObservedMatch(i) # {}
        /\ TeamWritesFor("UpdateTeam", i) = {}

-----------------------------------------------------------------------------
(* C29 *)

\* Team i before and after the promotion: the members that are admins are
\* among the maintainers afterwards, the other members are the members
\* afterwards, in their order; the maintainers of before are all kept; the
\* union of the two lists is the same set; nothing else of the team changes.
PromotedAsDue(before, after, admins) ==
    /\ after.Members = SelectSeqIdx(before.Members,
                            {k \in 1..Len(before.Members) : before.Members[k] \notin admins})
    /\ \A k \in 1..Len(before.Members) :
            before.Members[k] \in admins => before.Members[k] \in Range(after.Maintainers)
    /\ Range(before.Maintainers) \subseteq Range(after.Maintainers)
    /\ Range(after.Maintainers) \cup Range(after.Members)
            = Range(before.Maintainers) \cup Range(before.Members)
    /\ [after EXCEPT !.Maintainers = <<>>, !.Members = <<>>]
            = [before EXCEPT !.Maintainers = <<>>, !.Members = <<>>]

\* C29: admin promotion moves, in every desired team at every depth, each
\* member that is an org admin into the maintainers, leaves the other
\* members in their order, removes no maintainer and leaves the union of
\* maintainers and members of every team as it was.
C29_AdminsPromotedInEveryTeam ==
    st.pc = "done" /\ ~st.err =>
        /\ Len(st.org.Teams) = Len(orgDoc.Teams)
        /\ \A i \in 1..Len(orgDoc.Teams) :
            PromotedAsDue(orgDoc.Teams[i], st.org.Teams[i], forge.admins)

\* In a team two levels below the top u1 was promoted from between two
\* members that stay.
C29_Witness ==
    /\ st.pc = "done" /\ ~st.err
    /\ forge.admins = {"u1"}
    /\ Len(orgDoc.Teams) = 3
    /\ orgDoc.Teams[2].parent = 1 /\ orgDoc.Teams[3].parent = 2
    /\ orgDoc.Teams[3].Members = <<"u3", "u1", "u2">>
    /\ st.org.Teams[3].Members = <<"u3", "u2">>
    /\ st.org.Teams[3].Maintainers = <<"u1">>

-----------------------------------------------------------------------------
(* C30 *)

\* C30 (as stated): in an ApplyOrg whose org the rule engine has accepted, no
\* two desired teams match the same team of the listing, by name or by a
\* previous name.
C30_AcceptedOrgHasNoDoubleMatch ==
    (st.pc \notin {"idle", "rules"} /\ st.ruleErr = "nil") =>
        \A i \in 1..Len(st.org.Teams) : \A j \in 1..Len(st.org.Teams) :
            i # j => ObservedMatch(i) \cap ObservedMatch(j) = {}

-----------------------------------------------------------------------------
(* C31 *)

\* The hierarchy of the forge's teams is a forest: a parent is a team of the
\* forge, and no team is below itself.
IsForest(f) ==
    \A t \in Range(f.teams) :
        /\ t.ParentID = 0 \/ t.ParentID \in TeamIDs(f)
        /\ t.ID \notin DescendantsN(f, {u.ID : u \in {v \in Range(f.teams) : v.ParentID = t.ID}},
                                    Len(f.teams))

\* A step of ApplyOrg that issues CreateTeam or UpdateTeam to the forge (the
\* run is not read-only) in a run that started from a forest: an UpdateTeam
\* call names as parent neither the team itself nor a team below it, and the
\* forge is a forest afterwards.
TeamWriteKeepsForest ==
    (IssuesTeamWrite /\ ~st.readOnly /\ IsForest(st.forge0)) =>
        LET c == calls'[Len(calls')]
        IN  /\ c.op = "UpdateTeam" =>
                    /\ c.team.ParentID # c.team.ID
                    /\ c.team.ParentID \notin Descendants(forge, c.team.ID)
            /\ IsForest(forge')

\* C31 (as stated): for an org the rule engine accepts and an observed
\* hierarchy that is a forest, the forge's hierarchy is a forest after every
\* CreateTeam and UpdateTeam call of ApplyOrg, and no update names as parent
\* the team itself or one of its descendants.
C31_TeamWritesKeepForest == [][TeamWriteKeepsForest]_vars


-----------------------------------------------------------------------------
(* C32 *)

\* A step of ApplyOrg that issues DeleteTeam to the forge.
IssuesDeleteTeam ==
    /\ Len(calls') = Len(calls) + 1
    /\ calls'[Len(calls')].op = "DeleteTeam"
    /\ ~st.readOnly

\* The kept teams that are, on the forge, directly below team o or below a
\* descendant of o.
KeptBelow(o) ==
    {t \in Range(forge.teams) :
        /\ t.ID \in KeptTeamIDs
        /\ t.ParentID \in {o} \cup Descendants(forge, o)}

\* The team deleted is an orphan with no kept team below it, the delete,
\* cascade included, leaves every kept team on the forge, and no CreateTeam
\* or UpdateTeam is issued once a DeleteTeam was.
DeleteSparesKept ==
    /\ IssuesDeleteTeam =>
            LET o == calls'[Len(calls')].id
            IN  /\ o \in Orphans
                /\ KeptBelow(o) = {}
                /\ KeptTeamIDs \cap TeamIDs(forge) \subseteq TeamIDs(forge')
    /\ IssuesTeamWrite => CallsOf("DeleteTeam") = {}

\* C32: when ApplyOrg issues DeleteTeam for an orphan, no kept team has the
\* orphan or a descendant of it as its parent on the forge, so the cascade of
\* the delete removes no kept team; every UpdateTeam comes before every
\* DeleteTeam.
C32_DeleteSparesKeptTeams == [][DeleteSparesKept]_vars

\* A DeleteTeam answered without error for an orphan that had, when the run
\* began, a kept team as its child, re-parented by an UpdateTeam before.
C32_Witness ==
    /\ st.pc # "idle"
    /\ ~st.readOnly
    /\ \E d \in CallsOf("DeleteTeam") :
        /\ calls[d].ok
        /\ \E t \in Range(st.forge0.teams) :
            /\ t.ID \in KeptTeamIDs
            /\ t.ParentID = calls[d].id
            /\ \E u \in CallsOf("UpdateTeam") :
                    /\ u < d
                    /\ calls[u].ok
                    /\ calls[u].team.ID = t.ID
                    /\ calls[u].team.ParentID # t.ParentID


-----------------------------------------------------------------------------
(* C33 *)

\* The teams the step removes from the forge, the cascade included.
RemovedByStep == TeamIDs(forge) \ TeamIDs(forge')

\* A DeleteTeam issued to the forge is for a team the activeTeamDeletions
\* rule found unmatched in the listing, and neither it nor any team its
\* cascade removes has a repository.
DeletesOnlyCheckedTeams ==
    IssuesDeleteTeam =>
        LET o == calls'[Len(calls')].id
        IN  /\ o \in unmatchedTeamIDs(st.org, st.haveTeams)
            /\ \A id \in {o} \cup RemovedByStep :
                    /\ id \in unmatchedTeamIDs(st.org, st.haveTeams)
                    /\ listTeamRepoNames(forge, id) = {}

\* When ApplyOrg returns without error, the teams it issued DeleteTeam for
\* are the teams the rule found unmatched.
DeletedAreTheUnmatched ==
    Succeeded =>
        {calls[d].id : d \in CallsOf("DeleteTeam")} = unmatchedTeamIDs(st.org, st.haveTeams)

\* C33: with the built-in rules, ApplyOrg issues DeleteTeam for no team that
\* WalkReposByTeam yields a repository for, and the teams a completed
\* ApplyOrg deletes are the teams activeTeamDeletions found unmatched.
C33_DeletesOnlyTeamsWithoutRepos ==
    [][DeletesOnlyCheckedTeams]_vars /\ []DeletedAreTheUnmatched

\* A completed run on the real forge that deleted a team while another team
\* of the forge has a repository.
C33_Witness ==
    /\ Succeeded
    /\ ~st.readOnly
    /\ \E d \in CallsOf("DeleteTeam") : calls[d].ok
    /\ \E id \in TeamIDs(forge) : listTeamRepoNames(forge, id) # {}


-----------------------------------------------------------------------------
(* C34 *)

\* How often the name occurs among the teams of the tree, and among the
\* violations the rule reported.
NameOccurrences(name) ==
    Cardinality({i \in 1..Len(orgDoc.Teams) : orgDoc.Teams[i].Name = name})

TimesReported(name) ==
    Cardinality({k \in 1..Len(st.violations) : st.violations[k] = name})

\* C34 (as stated): teamNamesUniqueRule reports each team name that occurs
\* more than once in the tree exactly once, however often it occurs, and no
\* name that occurs once.
C34_DuplicateNameReportedOnce ==
    (st.pc = "done" /\ st.rule = "teamNamesUnique") =>
        \A name \in {orgDoc.Teams[i].Name : i \in 1..Len(orgDoc.Teams)} :
            TimesReported(name) = (IF NameOccurrences(name) > 1 THEN 1 ELSE 0)


-----------------------------------------------------------------------------
(* C35 *)

\* The admin topics were derived for the teams of an org teamNameLengthRule
\* accepted.
TopicsOfAcceptedNames == st.pc = "topics" /\ st.rule = "teamNameLength"

UncutTopic(name) == adminTopicPrefix \o normaliseName(name)

-----------------------------------------------------------------------------
(* C36 *)

AdminTopicOps == {"UpdateAdminTopics", "UpdateRepoAdminTopics", "UpdateTeamAdminTopics"}

\* C36 (as stated): the ReposUpdated of a result that UpdateAdminTopics,
\* UpdateRepoAdminTopics or UpdateTeamAdminTopics returns without error is
\* the number of UpdateRepoTopics calls that call issued, 0 when the topics
\* of no repo differed.
C36_ReposUpdatedCountsTopicWrites ==
    (repoOp.op \in AdminTopicOps /\ ~repoOp.err) =>
        repoOp.result.ReposUpdated = Cardinality(CallsOf("UpdateRepoTopics"))


-----------------------------------------------------------------------------
(* C37 *)

\* The receives that returned a message whose payload is no event.
UnparsedReceives ==
    {k \in CallsOf("ReceiveMessage") :
        calls[k].ok /\ calls[k].handle # 0 /\ ~calls[k].message.payloadOK}

\* The turn of receive k deleted the message received and called nothing else.
DroppedAndDeleted(k) ==
    /\ \E j \in TurnOf(k) : calls[j].op = "DeleteMessage" /\ calls[j].handle = calls[k].handle
    /\ OnlyDeleted(k)

\* The worker does not return from its loop on a receive the queue itself
\* answered: it stops only when the queue's call failed.
StopsOnlyOnQueueError == (st.pc # "stopped" /\ st'.pc = "stopped") => failures' > failures

\* C37 (as stated): a message whose body or payload cannot be parsed is
\* dropped: the worker deletes it, dispatches nothing for it and goes on to
\* the next receive.
C37_UnparsableMessageDropped ==
    /\ [](\A k \in UnparsedReceives : TurnOver(k) => DroppedAndDeleted(k))
    /\ [][StopsOnlyOnQueueError]_vars


-----------------------------------------------------------------------------
(* C38 *)

\* The turns of the worker, named by their receive, in which it called
\* UpdateRepoAdminTopics or UpdateTeamAdminTopics for the delivery.
DispatchingTurns(id) ==
    {k \in ParsedReceives : calls[k].message.DeliveryID = id /\ Len(DispatchesOf(k)) > 0}

\* The delete calls for the delivery that the queue answered with an error.
FailedDeletes(id) ==
    {j \in CallsOf("DeleteMessage") :
        /\ ~calls[j].ok
        /\ \E k \in ParsedReceives :
            calls[k].handle = calls[j].handle /\ calls[k].message.DeliveryID = id}

\* Handle has submitted every message under its delivery id and the one group.
SubmittedUnderDeliveryID ==
    \A k \in 1..Len(st.sent) :
        /\ st.sent[k].input.MessageDeduplicationId = st.sent[k].input.MessageBody.DeliveryID
        /\ st.sent[k].input.MessageGroupId = configName

\* C38 (as stated): whatever the forge redelivers and whatever the delete
\* calls return, the worker dispatches at most once for a delivery id, and
\* Handle submits each message with its delivery id as deduplication id and
\* one group id.
C38_DeliveryDispatchedAtMostOnce ==
    /\ SubmittedUnderDeliveryID
    /\ \A id \in 1..2 : Cardinality(DispatchingTurns(id)) <= 1

\* C38 (amended): Handle submits each message with its delivery id as
\* deduplication id and one group id, the queue holds at most one message of
\* a delivery id however often the forge delivers it, and the worker
\* dispatches for a delivery id at most once and once more for each delete
\* call of that delivery that failed.
C38_DeliveryDispatchedOncePerFailedDelete ==
    /\ SubmittedUnderDeliveryID
    /\ \A id \in 1..2 :
        /\ Cardinality({i \in 1..Len(st.queue) : st.queue[i].DeliveryID = id}) <= 1
        /\ Cardinality(DispatchingTurns(id)) <= 1 + Cardinality(FailedDeletes(id))

\* A delivery the forge delivered twice and the queue took once, dispatched
\* once and deleted; and one dispatched twice because its delete had failed.
C38_Witness ==
    \E id \in 1..2 : \E other \in 1..2 :
        /\ Cardinality({k \in 1..Len(st.sent) :
                            st.sent[k].ok /\ st.sent[k].input.MessageDeduplicationId = id}) = 2
        /\ Cardinality(DispatchingTurns(id)) = 1
        /\ \A i \in 1..Len(st.queue) : st.queue[i].DeliveryID # id
        /\ Cardinality(DispatchingTurns(other)) = 2
        /\ Cardinality(FailedDeletes(other)) = 1


-----------------------------------------------------------------------------
(* C39 *)

\* Goroutine p is between Lock and Unlock.
HoldsMutex(p) == st.procs[p].pc \in {"check", "fetch", "unmarshal", "build", "unlock"}

\* Goroutine p is refreshing the cache: it fetches, parses or builds.
Refreshing(p) == st.procs[p].pc \in {"fetch", "unmarshal", "build"}

\* The step is goroutine p's read of the cache.
ReadsCache(p) == st.procs[p].pc = "check" /\ st'.procs[p].pc # "check"

\* The map holds, under login and email, each user of the document that has
\* a login and an email (SCIM's before SAML's), and nothing else.
CompleteMapOf(users, doc) ==
    LET HasAt(v) == \E j \in 1..Len(v) : v[j] = "@"
        full == {i \in 1..Len(doc) :
                    /\ doc[i].GitHubUser # <<>>
                    /\ HasAt(doc[i].SCIMUser) \/ HasAt(doc[i].SAMLUser)}
        emailOf(i) == IF HasAt(doc[i].SCIMUser) THEN doc[i].SCIMUser ELSE doc[i].SAMLUser
    IN  /\ DOMAIN users = {doc[i].GitHubUser : i \in full} \cup {emailOf(i) : i \in full}
        /\ \A i \in full :
            /\ users[doc[i].GitHubUser] = [Login |-> doc[i].GitHubUser, Email |-> emailOf(i)]
            /\ users[emailOf(i)] = [Login |-> doc[i].GitHubUser, Email |-> emailOf(i)]

\* No goroutine reads the cache while another refreshes it, and no two hold
\* the mutex, so no two refresh at once.
OneAtATime ==
    \A p \in Goroutines : \A q \in Goroutines \ {p} :
        /\ ~(HoldsMutex(p) /\ HoldsMutex(q))
        /\ ~(st.procs[p].pc = "check" /\ Refreshing(q))

\* A step that changes the cache or its time is the last step of a refresh
\* without error, and puts in the complete map of the document fetched.
ReplacedByCompleteMap ==
    (st'.userCache # st.userCache \/ st'.userCacheTime # st.userCacheTime) =>
        \E p \in Goroutines :
            /\ Refreshing(p)
            /\ st'.procs[p].pc = "unlock" /\ ~st'.procs[p].err
            /\ st'.userCache.ok
            /\ CompleteMapOf(st'.userCache.users, st.procs[p].buf.auditUsers)
            /\ st'.userCacheTime = st.now

\* A lookup that reads the cache less than userCacheTTL after the last
\* refresh goes on to return without fetching; the object store is called
\* only when there is no cache or the cache is older.
FreshCacheNotFetched ==
    /\ \A p \in Goroutines :
        (ReadsCache(p) /\ st.procs[p].orgName = supportedOrgName
            /\ st.userCache.ok /\ st.now - st.userCacheTime < userCacheTTL) =>
                /\ st'.procs[p].pc = "unlock"
                /\ calls' = calls
    /\ Len(calls') > Len(calls) =>
            ~(st.userCache.ok /\ st.now - st.userCacheTime < userCacheTTL)

\* A lookup that returns an error returns with the cache and its time as
\* they were when it took the mutex.
FailedRefreshLeavesCache ==
    \A p \in Goroutines :
        (st.procs[p].pc = "unlock" /\ st'.procs[p].pc = "idle" /\ st.procs[p].err) =>
            st.procs[p].seen = <<st.userCache, st.userCacheTime>>

\* C39: however the lookups of the goroutines interleave, none reads the
\* cache while it is refreshed, no two refreshes overlap, the map is replaced
\* only by one built completely, a lookup less than userCacheTTL after the
\* last refresh fetches nothing, and a refresh that fails leaves the cache
\* and its time as they were.
C39_CacheRefreshedUnderMutex ==
    /\ []OneAtATime
    /\ [][ReplacedByCompleteMap /\ FreshCacheNotFetched /\ FailedRefreshLeavesCache]_vars

\* A refresh, a lookup answered from the cache that found a user, and a
\* refresh that failed once the cache was old.
C39_Witness ==
    /\ Len(runs) = 3
    /\ ~runs[1].err /\ ~runs[2].err /\ runs[3].err
    /\ Len(calls) = 2 /\ calls[1].ok /\ ~calls[2].ok
    /\ st.userCache.ok /\ st.userCache.users # NoUsers
    /\ st.now - st.userCacheTime >= userCacheTTL
    /\ runs[2].result # NoUser


-----------------------------------------------------------------------------
(* C40 *)

\* UpdateRepoTeams has just run, right after an UpdateRepoTeams with the same
\* change set that ran on the real forge and returned no error.
SecondRepoTeamsRun ==
    st.pc = "idle" /\ repoOp.op = "UpdateRepoTeams" /\ repoOp.follows = "UpdateRepoTeams"

\* No team is named twice in AddTeams, and no team with its permission is in
\* both AddTeams and RemoveTeams.
ConsistentChangeSet ==
    /\ \A i \in 1..Len(changes.AddTeams) : \A j \in 1..Len(changes.AddTeams) :
            i # j => changes.AddTeams[i].TeamName # changes.AddTeams[j].TeamName
    /\ Range(changes.AddTeams) \cap Range(changes.RemoveTeams) = {}

\* C40: for a change set that names no team twice in AddTeams and no pair
\* in both AddTeams and RemoveTeams, an UpdateRepoTeams that follows a
\* successful one with the same change set writes no team permission and
\* counts none.
C40_SecondRunWritesNoPermissions ==
    (SecondRepoTeamsRun /\ ConsistentChangeSet) =>
        /\ PermissionWrites = {}
        /\ ~repoOp.err =>
                /\ repoOp.result.TeamPermissionsRemoved = 0
                /\ repoOp.result.TeamPermissionsAdded = 0

\* The second run returned no error on a forge where the first run had
\* removed team a from repo r and made team b, which was no admin of any
\* repo before, an admin of it.
C40_Witness ==
    /\ SecondRepoTeamsRun /\ ConsistentChangeSet
    /\ ~repoOp.err /\ ~repoOp.readOnly
    /\ changes.RemoveTeams = <<TeamPermission(<<"a">>, RepoPermissionAdmin)>>
    /\ TeamPermission(<<"b">>, RepoPermissionAdmin) \in Range(changes.AddTeams)
    /\ changes.ExcludeRepos = <<>>
    /\ forge.repos[1].Teams = {[teamID |-> 2, permission |-> RepoPermissionAdmin]}

=============================================================================
